---- MODULE Spec2Model ----
(***************************************************************************)
(* A model of the festival content server (server.js): the admin account   *)
(* store, the access control gate, the per-year content records and their  *)
(* reconciliation with the remote media store.                             *)
(*                                                                         *)
(* Strings whose characters the code inspects (lower-casing, trimming,     *)
(* substring tests, URL paths) are sequences of one-character strings.     *)
(* Strings the code only compares for equality (secrets, names) are TLA+   *)
(* strings.  An absent optional value is the empty sequence <<>>, a        *)
(* present one the one-element sequence <<v>>.                             *)
(***************************************************************************)
EXTENDS Integers, Sequences, FiniteSets, TLC

VARIABLES
    AdminUser,   \* the admin account collection: a set of account documents
    Content,     \* the content collection: a set of per-year documents
    cloudinary,  \* the remote media store: the set of keys (public_ids) it holds
    now,         \* the wall clock, in hours
    issued,      \* the tokens login has handed out so far
    oidSeq,      \* per collection, the number of document ids handed out so far
    inflight,    \* the requests being handled: slot -> request record or Idle
    resp         \* the response sent by the last step, NoResp when it sent none

vars == <<AdminUser, Content, cloudinary, now, issued, oidSeq, inflight, resp>>

-----------------------------------------------------------------------------
(* Bounds of the model *)

MaxInFlight == 2
MaxAccounts == 2
MaxTokens == 1
MaxNow == 12
TickHours == 6
MaxEntries == 2
MaxStamp == 1

-----------------------------------------------------------------------------
(* Character strings *)

Range(s) == {s[i] : i \in 1..Len(s)}

UpperChars == <<"A","B","C","D","E","F","G","H","I","J","K","L","M",
                "N","O","P","Q","R","S","T","U","V","W","X","Y","Z">>
LowerChars == <<"a","b","c","d","e","f","g","h","i","j","k","l","m",
                "n","o","p","q","r","s","t","u","v","w","x","y","z">>
Digits == <<"0","1","2","3","4","5","6","7","8","9">>

IndexIn(c, alphabet) ==
    IF \E i \in 1..Len(alphabet) : alphabet[i] = c
    THEN CHOOSE i \in 1..Len(alphabet) : alphabet[i] = c
    ELSE 0

LowerChar(c) == IF IndexIn(c, UpperChars) = 0 THEN c ELSE LowerChars[IndexIn(c, UpperChars)]

\* String.prototype.toLowerCase
ToLowerCase(s) == [i \in 1..Len(s) |-> LowerChar(s[i])]

IsSpace(c) == c = " "

RECURSIVE TrimStart(_)
TrimStart(s) == IF s # <<>> /\ IsSpace(Head(s)) THEN TrimStart(Tail(s)) ELSE s

RECURSIVE TrimEnd(_)
TrimEnd(s) == IF s # <<>> /\ IsSpace(s[Len(s)]) THEN TrimEnd(SubSeq(s, 1, Len(s) - 1)) ELSE s

\* String.prototype.trim
Trim(s) == TrimEnd(TrimStart(s))

\* String.prototype.startsWith
StartsWith(s, p) == Len(p) <= Len(s) /\ SubSeq(s, 1, Len(p)) = p

\* String.prototype.includes
Includes(s, sub) == \E i \in 0..(Len(s) - Len(sub)) : SubSeq(s, i + 1, i + Len(sub)) = sub

IsDigit(c) == IndexIn(c, Digits) # 0
IsAlnum(c) == IsDigit(c) \/ IndexIn(c, UpperChars) # 0 \/ IndexIn(c, LowerChars) # 0
IsLetter(c) == IndexIn(c, UpperChars) # 0 \/ IndexIn(c, LowerChars) # 0

\* String.prototype.split on a one-character separator
RECURSIVE SplitOn(_, _)
SplitOn(s, c) ==
    IF \A i \in 1..Len(s) : s[i] # c
    THEN <<s>>
    ELSE LET k == CHOOSE i \in 1..Len(s) : s[i] = c /\ \A j \in 1..(i - 1) : s[j] # c
         IN  <<SubSeq(s, 1, k - 1)>> \o SplitOn(SubSeq(s, k + 1, Len(s)), c)

NonEmpty(seg) == seg # <<>>
\* .filter(Boolean) on an array of strings
FilterBoolean(parts) == SelectSeq(parts, NonEmpty)

\* Array.prototype.join
RECURSIVE JoinWith(_, _)
JoinWith(parts, c) ==
    IF parts = <<>> THEN <<>>
    ELSE IF Len(parts) = 1 THEN parts[1]
    ELSE parts[1] \o <<c>> \o JoinWith(Tail(parts), c)

\* .replace(/\.[a-zA-Z0-9]+$/, '')
StripExtension(s) ==
    IF \E k \in 1..(Len(s) - 1) : s[k] = "." /\ \A j \in (k + 1)..Len(s) : IsAlnum(s[j])
    THEN LET k == CHOOSE i \in 1..(Len(s) - 1) :
                      s[i] = "." /\ \A j \in (i + 1)..Len(s) : IsAlnum(s[j])
         IN  SubSeq(s, 1, k - 1)
    ELSE s

\* /^v\d+$/.test
IsVersionSegment(seg) ==
    Len(seg) >= 2 /\ seg[1] = "v" /\ \A j \in 2..Len(seg) : IsDigit(seg[j])

\* .replace(/\s+/g, '_')
RECURSIVE ReplaceWhitespace(_)
ReplaceWhitespace(s) ==
    IF s = <<>> THEN <<>>
    ELSE IF IsSpace(Head(s)) THEN <<"_">> \o ReplaceWhitespace(TrimStart(s))
    ELSE <<Head(s)>> \o ReplaceWhitespace(Tail(s))

\* the decimal digits of a natural number, as template literals print it
RECURSIVE DecimalDigits(_)
DecimalDigits(n) ==
    IF n < 10 THEN <<Digits[n + 1]>> ELSE DecimalDigits(n \div 10) \o <<Digits[(n % 10) + 1]>>

RECURSIVE DigitsValue(_)
DigitsValue(s) ==
    IF s = <<>> THEN 0 ELSE 10 * DigitsValue(SubSeq(s, 1, Len(s) - 1)) + (IndexIn(s[Len(s)], Digits) - 1)

\* Number(param) for a route parameter: the value of a run of digits, None for NaN
JsNumber(s) == IF s # <<>> /\ \A i \in 1..Len(s) : IsDigit(s[i]) THEN <<DigitsValue(s)>> ELSE <<>>

IndexOfSub(s, sub) ==
    IF Includes(s, sub)
    THEN 1 + CHOOSE i \in 0..(Len(s) - Len(sub)) :
                 /\ SubSeq(s, i + 1, i + Len(sub)) = sub
                 /\ \A j \in 0..(i - 1) : SubSeq(s, j + 1, j + Len(sub)) # sub
    ELSE 0

\* new URL(s) for absolute URLs scheme://host/path?query; <<>> where it throws
ParseURL(s) ==
    LET k == IndexOfSub(s, <<":","/","/">>)
    IN  IF k < 2 \/ ~(\A i \in 1..(k - 1) : IsLetter(s[i])) \/ k + 3 > Len(s)
        THEN <<>>
        ELSE LET rest == SubSeq(s, k + 3, Len(s))
                 q == IndexOfSub(rest, <<"?">>)
                 noQuery == IF q = 0 THEN rest ELSE SubSeq(rest, 1, q - 1)
                 query == IF q = 0 THEN <<>> ELSE SubSeq(rest, q + 1, Len(rest))
                 sl == IndexOfSub(noQuery, <<"/">>)
             IN  << [hostname |-> IF sl = 0 THEN noQuery ELSE SubSeq(noQuery, 1, sl - 1),
                     pathname |-> IF sl = 0 THEN <<"/">> ELSE SubSeq(noQuery, sl, Len(noQuery)),
                     search |-> query] >>

-----------------------------------------------------------------------------
(* Configuration (process.env) and request vocabulary *)

ADMIN_KEY == "admin-key"
JWT_SECRET == "jwt-secret"
OtherSecret == "not-the-jwt-secret"
TokenTtlHours == 12

None == <<>>
Some(v) == <<v>>

NoResp == [op |-> "none"]
Idle == [op |-> "idle"]

Slots == 1..MaxInFlight
FreeSlots == {s \in Slots : inflight[s] = Idle}
\* a new request is taken into the lowest free slot
IsNextSlot(s) == s \in FreeSlots /\ \A t \in FreeSlots : s <= t
Alone == FreeSlots = Slots

EmailA == <<"a","@","x">>
EmailAVariant == <<" ","A","@","X"," ">>
EmailB == <<"b","@","x">>

BearerSchemes == { <<"B","e","a","r","e","r">>, <<"B","E","A","R","E","R">>, <<"B","a","s","i","c">> }
KeyHeaders == { "", ADMIN_KEY, "ADMIN-KEY" }

\* tokens a client can present: the issued ones, and the same payloads signed with another secret
Forged(t) == [payload |-> t.payload, sig |-> OtherSecret]
GarbageToken == [payload |-> [id |-> 0, email |-> <<>>, role |-> "", exp |-> 0], sig |-> OtherSecret]
PresentableTokens == issued \cup {Forged(t) : t \in issued} \cup {GarbageToken}

AuthorizationHeaders ==
    {None} \cup {Some([scheme |-> s, token |-> t]) : s \in BearerSchemes, t \in PresentableTokens}

Credentials == [authorization : AuthorizationHeaders, key : KeyHeaders]

-----------------------------------------------------------------------------
(* Libraries: bcryptjs and jsonwebtoken *)

bcryptHash(password, salt) == [salt |-> salt, digest |-> <<salt, password>>]
bcryptCompare(password, hash) == hash.digest = <<hash.salt, password>>

jwtSign(payload, secret, ttl) ==
    [payload |-> [id |-> payload.id, email |-> payload.email, role |-> payload.role,
                  exp |-> now + ttl],
     sig |-> secret]

jwtVerifyIgnoringExpiry(token, secret) ==
    IF token.sig = secret THEN Some(token.payload) ELSE None

\* jwt.verify: the payload, or None where the library throws (bad signature, expired)
jwtVerify(token, secret) ==
    IF token.sig = secret /\ now < token.payload.exp THEN Some(token.payload) ELSE None

-----------------------------------------------------------------------------
(* Auth helpers and middleware *)

NormalizeEmailLowerOnly(email) == ToLowerCase(email)

\* email.toLowerCase().trim()
NormalizeEmail(email) == Trim(ToLowerCase(email))

FindUserByEmail(email) ==
    IF \E u \in AdminUser : u.email = email
    THEN Some(CHOOSE u \in AdminUser : u.email = email)
    ELSE None

WithoutPasswordHash(u) == [_id |-> u._id, email |-> u.email, role |-> u.role]

FindUserById(id) ==
    IF \E u \in AdminUser : u._id = id
    THEN Some(WithoutPasswordHash(CHOOSE u \in AdminUser : u._id = id))
    ELSE None

verifyJwtToken(token) ==
    LET decoded == jwtVerify(token, JWT_SECRET)
    IN  IF decoded = None \/ decoded[1].id = 0 THEN None ELSE FindUserById(decoded[1].id)

LegacyPrincipal == [email |-> "x-admin-key", role |-> "admin"]

BearerPathRejects(cred) ==
    \/ cred.authorization = None
    \/ ~StartsWith(ToLowerCase(cred.authorization[1].scheme \o <<" ">>),
                   <<"b","e","a","r","e","r"," ">>)
    \/ verifyJwtToken(cred.authorization[1].token) = None

KeyPathRejects(cred) == ~(cred.key # "" /\ cred.key = ADMIN_KEY)

authMiddlewareRejectingBadBearer(cred) ==
    IF ~BearerPathRejects(cred) THEN verifyJwtToken(cred.authorization[1].token)
    ELSE IF cred.authorization # None THEN None
    ELSE IF ~KeyPathRejects(cred) THEN Some(LegacyPrincipal)
    ELSE None

\* The gate's decision: the principal attached to the request, or None for a 401
authMiddleware(cred) ==
    IF ~BearerPathRejects(cred) THEN verifyJwtToken(cred.authorization[1].token)
    ELSE IF ~KeyPathRejects(cred) THEN Some(LegacyPrincipal)
    ELSE None

adminAuthOpen(cred) == Some(LegacyPrincipal)

\* const adminAuth = authMiddleware
adminAuth(cred) == authMiddleware(cred)

-----------------------------------------------------------------------------
(* Auth routes *)

RegisterKeyRejectsUnlessAuthenticated(cred) == adminAuth(cred) = None

\* the bootstrap check of POST /api/auth/register: the x-admin-key header alone
RegisterKeyRejects(cred) == ~(cred.key # "" /\ cred.key = ADMIN_KEY)

\* POST /api/auth/register, up to the lookup of an existing account
RegisterBegin(s, cred, body) ==
    /\ IsNextSlot(s)
    /\ UNCHANGED <<AdminUser, Content, cloudinary, now, issued, oidSeq>>
    /\ LET req == [cred |-> cred, body |-> body]
           email == NormalizeEmail(body.email)
       IN  IF RegisterKeyRejects(cred)
           THEN /\ resp' = [op |-> "register", status |-> 401, req |-> req]
                /\ UNCHANGED inflight
           ELSE IF body.email = <<>> \/ body.password = ""
           THEN /\ resp' = [op |-> "register", status |-> 400, req |-> req,
                            message |-> "email and password required"]
                /\ UNCHANGED inflight
           ELSE IF FindUserByEmail(email) # None
           THEN /\ resp' = [op |-> "register", status |-> 400, req |-> req,
                            message |-> "User already exists"]
                /\ UNCHANGED inflight
           ELSE /\ inflight' = [inflight EXCEPT ![s] =
                                   [op |-> "register", pc |-> "save", req |-> req]]
                /\ resp' = NoResp

\* AdminUserSchema: email is stored lower-cased and trimmed
SchemaEmail(email) == Trim(ToLowerCase(email))

AdminUserInsertUnchecked(doc) == TRUE

\* the unique index on AdminUser.email
AdminUserInsertAllowed(doc) == \A u \in AdminUser : u.email # doc.email

\* POST /api/auth/register, the hashing and the save of the new account
RegisterSave(s) ==
    /\ inflight[s].op = "register" /\ inflight[s].pc = "save"
    /\ LET r == inflight[s]
           user == [_id |-> oidSeq.AdminUser + 1, email |-> SchemaEmail(NormalizeEmail(r.req.body.email)),
                    passwordHash |-> bcryptHash(r.req.body.password, "salt"), role |-> "admin"]
       IN  IF AdminUserInsertAllowed(user)
           THEN /\ oidSeq.AdminUser < MaxAccounts
                /\ AdminUser' = AdminUser \cup {user}
                /\ oidSeq' = [oidSeq EXCEPT !.AdminUser = @ + 1]
                /\ resp' = [op |-> "register", status |-> 201, req |-> r.req,
                            user |-> WithoutPasswordHash(user)]
           ELSE /\ UNCHANGED <<AdminUser, oidSeq>>
                /\ resp' = [op |-> "register", status |-> 500, req |-> r.req,
                            message |-> "E11000 duplicate key"]
    /\ inflight' = [inflight EXCEPT ![s] = Idle]
    /\ UNCHANGED <<Content, cloudinary, now, issued>>

\* POST /api/auth/login
Login(body) ==
    /\ LET req == [body |-> body]
           found == FindUserByEmail(NormalizeEmail(body.email))
       IN  IF body.email = <<>> \/ body.password = ""
           THEN /\ resp' = [op |-> "login", status |-> 400, req |-> req, token |-> None]
                /\ UNCHANGED issued
           ELSE IF found = None
           THEN /\ resp' = [op |-> "login", status |-> 401, req |-> req, token |-> None]
                /\ UNCHANGED issued
           ELSE IF ~bcryptCompare(body.password, found[1].passwordHash)
           THEN /\ resp' = [op |-> "login", status |-> 401, req |-> req, token |-> None]
                /\ UNCHANGED issued
           ELSE LET user == found[1]
                    token == jwtSign([id |-> user._id, email |-> user.email, role |-> user.role],
                                     JWT_SECRET, TokenTtlHours)
                IN  /\ token \in issued \/ Cardinality(issued) < MaxTokens
                    /\ issued' = issued \cup {token}
                    /\ resp' = [op |-> "login", status |-> 200, req |-> req,
                                token |-> Some(token), user |-> WithoutPasswordHash(user)]
    /\ UNCHANGED <<AdminUser, Content, cloudinary, now, oidSeq, inflight>>

\* GET /api/auth/me
Me(cred) ==
    /\ LET user == adminAuth(cred)
       IN  IF user = None
           THEN resp' = [op |-> "me", status |-> 401, req |-> [cred |-> cred], user |-> None]
           ELSE resp' = [op |-> "me", status |-> 200, req |-> [cred |-> cred], user |-> user]
    /\ UNCHANGED <<AdminUser, Content, cloudinary, now, issued, oidSeq, inflight>>

-----------------------------------------------------------------------------
(* The content collection and the remote media store *)

Truthy(v) == v # <<>>

\* new Content({ year, photos: [], awards: [], partners: [] })
NewContent(id, year) ==
    [_id |-> id, year |-> year, videoLink |-> <<>>,
     photos |-> <<>>, awards |-> <<>>, partners |-> <<>>]

\* Content.findOne({ year })
ContentFindOne(year) ==
    IF \E d \in Content : d.year = year
    THEN Some(CHOOSE d \in Content : d.year = year)
    ELSE None

ContentInsertUnchecked(doc) == TRUE

\* the unique index on year: an insert of a second document for a year fails
ContentInsertAllowed(doc) == \A d \in Content : d.year # doc.year

\* a save that deletes a document left without any content
ContentReplaceDroppingEmptied(doc) ==
    IF doc.videoLink = <<>> /\ doc.photos = <<>> /\ doc.awards = <<>> /\ doc.partners = <<>>
    THEN {d \in Content : d._id # doc._id}
    ELSE {d \in Content : d._id # doc._id} \cup {doc}

\* the update doc.save() sends for a loaded document: the stored document with
\* the _id of doc becomes doc
ContentReplace(doc) == {d \in Content : d._id # doc._id} \cup {doc}

CdnBase == <<"h","t","t","p","s",":","/","/","c","d","n",".","i","o","/","i","m","a","g","e","/","u","p","l","o","a","d","/","v","1","/">>

ApiContent == <<"/","a","p","i","/","c","o","n","t","e","n","t","/">>

\* imagesStorage params: the folder is chosen from the request's URL
ImagesFolder(originalUrl) ==
    IF Includes(originalUrl, <<"/","a","w","a","r","d","s">>)
    THEN <<"e","v","e","n","t","s","/","a","w","a","r","d","s">>
    ELSE IF Includes(originalUrl, <<"/","p","a","r","t","n","e","r","s">>)
    THEN <<"e","v","e","n","t","s","/","p","a","r","t","n","e","r","s">>
    ELSE <<"e","v","e","n","t","s","/","p","h","o","t","o","s">>

\* imagesStorage params: `${Date.now()}-${originalname.replace(/\s+/g,'_').split('.')[0]}`
ImagesPublicId(originalname) ==
    DecimalDigits(now) \o <<"-">> \o SplitOn(ReplaceWhitespace(originalname), ".")[1]

FileFormat(originalname) ==
    LET parts == SplitOn(originalname, ".") IN parts[Len(parts)]

\* what multer-storage-cloudinary leaves in req.files for one stored file
StoredFile(folder, publicId, originalname) ==
    [path |-> CdnBase \o folder \o <<"/">> \o publicId \o <<".">> \o FileFormat(originalname),
     filename |-> folder \o <<"/">> \o publicId]

-----------------------------------------------------------------------------
(* Helpers of the content routes *)

IsUploadSegment(p) == p = <<"u","p","l","o","a","d">> \/ p = <<"u","p","l","o","a","d","s">>

\* parts.findIndex(p => p === 'upload' || p === 'uploads'), 1-based, 0 for -1
UploadIdx(parts) ==
    IF \E i \in 1..Len(parts) : IsUploadSegment(parts[i])
    THEN CHOOSE i \in 1..Len(parts) :
             IsUploadSegment(parts[i]) /\ \A j \in 1..(i - 1) : ~IsUploadSegment(parts[j])
    ELSE 0

\* the derivation with the version segment left in the key
DerivedFromPathKeepingVersion(parts) ==
    LET afterUpload == IF UploadIdx(parts) > 0
                       THEN SubSeq(parts, UploadIdx(parts) + 1, Len(parts)) ELSE parts
    IN  StripExtension(JoinWith(afterUpload, "/"))

\* the public id a delivery URL's path denotes: after /upload/, without version and extension
DerivedFromPath(parts) ==
    LET afterUpload == IF UploadIdx(parts) > 0
                       THEN SubSeq(parts, UploadIdx(parts) + 1, Len(parts)) ELSE parts
        noVersion == IF afterUpload # <<>> /\ IsVersionSegment(afterUpload[1])
                     THEN Tail(afterUpload) ELSE afterUpload
    IN  StripExtension(JoinWith(noVersion, "/"))

LastOf(parts) == IF parts = <<>> THEN <<>> ELSE parts[Len(parts)]

extractPublicId(maybeIdOrUrl) ==
    IF ~Truthy(maybeIdOrUrl) THEN <<>>
    ELSE IF ~StartsWith(maybeIdOrUrl, <<"h","t","t","p">>) /\ ~Includes(maybeIdOrUrl, <<"/">>)
    THEN maybeIdOrUrl
    ELSE LET u == ParseURL(maybeIdOrUrl)
         IN  IF u # <<>>
             THEN LET parts == FilterBoolean(SplitOn(u[1].pathname, "/"))
                      joined == DerivedFromPath(parts)
                  IN  IF ~Truthy(joined) THEN StripExtension(LastOf(parts)) ELSE joined
             ELSE LET last == LastOf(FilterBoolean(SplitOn(maybeIdOrUrl, "/")))
                  IN  StripExtension(IF Truthy(last) THEN last ELSE maybeIdOrUrl)

\* the predicate of doc.photos.find / doc.partners.find in the delete routes
EntryMatches(p, id) ==
    \/ Truthy(p.public_id) /\ p.public_id = id
    \/ Truthy(p.url) /\ Includes(p.url, id)

\* Array.prototype.find as the index of the first match, 0 for undefined
FindEntry(list, id) ==
    IF \E i \in 1..Len(list) : EntryMatches(list[i], id)
    THEN CHOOSE i \in 1..Len(list) :
             EntryMatches(list[i], id) /\ \A j \in 1..(i - 1) : ~EntryMatches(list[j], id)
    ELSE 0

\* the filter of the not-found branch
PartialMatch(p, id) == p.public_id = id \/ (Truthy(p.url) /\ Includes(p.url, id))

RECURSIVE SelectIndices(_, _)
SelectIndices(list, keep) ==
    IF list = <<>> THEN <<>>
    ELSE LET n == Len(list)
             front == SelectIndices(SubSeq(list, 1, n - 1), keep)
         IN  IF n \in keep THEN Append(front, list[n]) ELSE front

RemovePartialMatchesClearing(list, id) == <<>>

RemovePartialMatches(list, id) ==
    SelectIndices(list, {i \in 1..Len(list) : ~PartialMatch(list[i], id)})

\* photo.public_id || photo.filename || extractPublicId(photo.url) || public_id_param
\* (the schema has no filename path, so that operand is undefined)
DestroyCandidate(entry, id) ==
    IF Truthy(entry.public_id) THEN entry.public_id
    ELSE IF Truthy(extractPublicId(entry.url)) THEN extractPublicId(entry.url)
    ELSE id

RemovePhotoKeepingDuplicates(list, k) ==
    SelectIndices(list, {i \in 1..Len(list) : i # k})

\* doc.photos.filter(p => !(p.public_id === photo.public_id && photo.public_id) && p !== photo)
\* followed by the url fallback, which runs only if the located entry survived
RemovePhoto(list, k) ==
    LET photo == list[k]
        kept == {i \in 1..Len(list) :
                    ~(list[i].public_id = photo.public_id /\ Truthy(photo.public_id)) /\ i # k}
    IN  IF k \in kept
        THEN SelectIndices(list, {i \in kept :
                 ~(Truthy(list[i].url) /\ Truthy(photo.url) /\ list[i].url = photo.url)})
        ELSE SelectIndices(list, kept)

\* doc.partners.filter(p => p !== partner && !(p.public_id && p.public_id === partner.public_id))
RemovePartner(list, k) ==
    LET partner == list[k]
        kept == {i \in 1..Len(list) :
                    i # k /\ ~(Truthy(list[i].public_id) /\ list[i].public_id = partner.public_id)}
    IN  IF k \in kept
        THEN SelectIndices(list, {i \in kept :
                 ~(Truthy(list[i].url) /\ Truthy(partner.url) /\ list[i].url = partner.url)})
        ELSE SelectIndices(list, kept)

YouTubeEmbedBase == <<"h","t","t","p","s",":","/","/","w","w","w",".","y","o","u","t","u","b","e",".","c","o","m","/","e","m","b","e","d","/">>

\* u.searchParams.get(name): the value of the first parameter of that name, <<>> for null
SearchParamGet(search, name) ==
    LET pairs == SplitOn(search, "&")
        named(i) == SplitOn(pairs[i], "=")[1] = name
    IN  IF \E i \in 1..Len(pairs) : named(i)
        THEN LET k == CHOOSE i \in 1..Len(pairs) : named(i) /\ \A j \in 1..(i - 1) : ~named(j)
             IN  JoinWith(Tail(SplitOn(pairs[k], "=")), "=")
        ELSE <<>>

\* /^[a-zA-Z0-9_-]{10,}$/.test
IsBareVideoId(id) ==
    Len(id) >= 10 /\ \A i \in 1..Len(id) : IsAlnum(id[i]) \/ id[i] = "_" \/ id[i] = "-"

\* the normalization without the v parameter of a main-host URL
toYouTubeEmbedIgnoringQuery(url) ==
    IF ~Truthy(url) THEN url
    ELSE LET u == ParseURL(url)
         IN  IF u = <<>>
             THEN IF IsBareVideoId(Trim(url)) THEN YouTubeEmbedBase \o Trim(url) ELSE url
             ELSE IF Includes(u[1].hostname, <<"y","o","u","t","u",".","b","e">>)
             THEN LET id == Tail(u[1].pathname)
                  IN  IF ~Truthy(id) THEN url ELSE YouTubeEmbedBase \o id
             ELSE IF Includes(u[1].hostname, <<"y","o","u","t","u","b","e",".","c","o","m">>)
             THEN IF StartsWith(u[1].pathname, <<"/","e","m","b","e","d","/">>) THEN url
                  ELSE LET possible == LastOf(FilterBoolean(SplitOn(u[1].pathname, "/")))
                       IN  IF Truthy(possible) THEN YouTubeEmbedBase \o possible ELSE url
             ELSE url

\* toYouTubeEmbed: the embeddable form of a submitted video link
toYouTubeEmbed(url) ==
    IF ~Truthy(url) THEN url
    ELSE LET u == ParseURL(url)
         IN  IF u = <<>>
             THEN IF IsBareVideoId(Trim(url)) THEN YouTubeEmbedBase \o Trim(url) ELSE url
             ELSE IF Includes(u[1].hostname, <<"y","o","u","t","u",".","b","e">>)
             THEN LET id == Tail(u[1].pathname)
                  IN  IF ~Truthy(id) THEN url ELSE YouTubeEmbedBase \o id
             ELSE IF Includes(u[1].hostname, <<"y","o","u","t","u","b","e",".","c","o","m">>)
             THEN IF StartsWith(u[1].pathname, <<"/","e","m","b","e","d","/">>) THEN url
                  ELSE IF Truthy(SearchParamGet(u[1].search, <<"v">>))
                  THEN YouTubeEmbedBase \o SearchParamGet(u[1].search, <<"v">>)
                  ELSE LET possible == LastOf(FilterBoolean(SplitOn(u[1].pathname, "/")))
                       IN  IF Truthy(possible) THEN YouTubeEmbedBase \o possible ELSE url
             ELSE url

CdnVideoBase == <<"h","t","t","p","s",":","/","/","c","d","n",".","i","o","/","v","i","d","e","o","/","u","p","l","o","a","d","/","v","1","/">>

\* videosStorage: folder events/videos, the public id is generated by the remote store
StoredVideo(originalname) ==
    LET publicId == <<"e","v","e","n","t","s","/","v","i","d","e","o","s","/","g">>
                        \o DecimalDigits(now)
    IN  [path |-> CdnVideoBase \o publicId \o <<".">> \o FileFormat(originalname),
         filename |-> publicId]

RoleNames == <<"winner", "firstRunnerUp", "secondRunnerUp">>
Roles == Range(RoleNames)

NewCategory(category) ==
    [category |-> category, winner |-> None, firstRunnerUp |-> None, secondRunnerUp |-> None]

\* doc.awards.find(a => a.category === category) as an index, 0 for undefined
FindCategory(awards, category) ==
    IF \E i \in 1..Len(awards) : awards[i].category = category
    THEN CHOOSE i \in 1..Len(awards) :
             awards[i].category = category /\ \A j \in 1..(i - 1) : awards[j].category # category
    ELSE 0

\* the required paths of AwardCategorySchema and PersonWithPhotoSchema
AwardsValid(awards) ==
    \A i \in 1..Len(awards) :
        /\ awards[i].category # ""
        /\ \A role \in Roles : awards[i][role] # None => awards[i][role][1].name # ""

RECURSIVE Dedupe(_)
Dedupe(seq) ==
    IF seq = <<>> THEN <<>>
    ELSE LET front == Dedupe(SubSeq(seq, 1, Len(seq) - 1))
             last == seq[Len(seq)]
         IN  IF \E i \in 1..Len(front) : front[i] = last THEN front ELSE Append(front, last)

\* the candidate keys the award deletions try for one slot photo
\* (public_id, then the key derived from the url; the schema has no filename)
PhotoCandidates(photo) ==
    LET explicit == IF Truthy(photo.public_id) THEN <<photo.public_id>> ELSE <<>>
        u == ParseURL(photo.url)
        derived == IF ~Truthy(photo.url) THEN <<>>
                   ELSE IF u # <<>>
                   THEN DerivedFromPath(FilterBoolean(SplitOn(u[1].pathname, "/")))
                   ELSE StripExtension(LastOf(SplitOn(photo.url, "/")))
    IN  Dedupe(explicit \o (IF Truthy(derived) THEN <<derived>> ELSE <<>>))

\* the gallery filter of DELETE .../awards/:category/:role/photo
SameAsSlotPhoto(p, photo) ==
    \/ Truthy(photo.public_id) /\ Truthy(p.public_id) /\ p.public_id = photo.public_id
    \/ Truthy(photo.url) /\ Truthy(p.url) /\ p.url = photo.url

\* people.map(p => p.photo).filter(Boolean).flatMap(photo => [public_id, filename, url].filter(Boolean))
RECURSIVE PhotoUrlsOrIds(_)
PhotoUrlsOrIds(photos) ==
    IF photos = <<>> THEN <<>>
    ELSE SelectSeq(<<Head(photos).public_id, Head(photos).url>>, Truthy) \o PhotoUrlsOrIds(Tail(photos))

\* the gallery filter of DELETE .../awards/:category
MatchesAnyOf(p, idsOrUrls) ==
    \E i \in 1..Len(idsOrUrls) :
        \/ p.public_id = idsOrUrls[i]
        \/ p.url = idsOrUrls[i]
        \/ Truthy(p.url) /\ Includes(p.url, idsOrUrls[i])

\* [cat.winner, cat.firstRunnerUp, cat.secondRunnerUp].filter(Boolean), their photos
RECURSIVE SlotPhotosFrom(_, _)
SlotPhotosFrom(cat, roles) ==
    IF roles = <<>> THEN <<>>
    ELSE (IF cat[Head(roles)] # None /\ cat[Head(roles)][1].photo # None
          THEN <<cat[Head(roles)][1].photo[1]>> ELSE <<>>) \o SlotPhotosFrom(cat, Tail(roles))

SlotPhotos(cat) == SlotPhotosFrom(cat, RoleNames)

RECURSIVE AllCandidates(_)
AllCandidates(photos) ==
    IF photos = <<>> THEN <<>> ELSE PhotoCandidates(Head(photos)) \o AllCandidates(Tail(photos))

-----------------------------------------------------------------------------
(* Content routes.  A request admitted by the gate is carried in its slot  *)
(* from one await to the next: "upload" (multer storing the next file),    *)
(* "findOne", "insert" (the save of a new document), "destroy" (the next   *)
(* remote delete) and "save"; "done" is the point where it responds.       *)

Admitted(op, req, user) ==
    [op |-> op, pc |-> "handler", req |-> req, user |-> user, year |-> 0,
     files |-> <<>>, todo |-> <<>>, doc |-> None, at |-> 0, destroys |-> <<>>,
     status |-> 200, message |-> "", base |-> None, stale |-> FALSE]

Done(r, status, message) == [r EXCEPT !.pc = "done", !.status = status, !.message = message]

\* the routes registered without adminAuth
PublicOps == {"getContentList", "getContentYear", "getAwardCategory"}

\* req.user of a request that did not pass through the gate
Anyone == [email |-> "", role |-> ""]

\* res.status(..).json(..): the document for 200 and 201, a message otherwise
Reply(r) ==
    [op |-> r.op, status |-> r.status, req |-> r.req,
     user |-> IF r.op \in PublicOps THEN None ELSE Some(r.user),
     doc |-> IF r.status \in {200, 201} THEN r.doc ELSE None,
     message |-> r.message, destroys |-> r.destroys]

\* res.status(401).json({ message: 'Unauthorized' }) of the gate
GateRejected(op, req) ==
    [op |-> op, status |-> 401, req |-> req, user |-> None, doc |-> None,
     message |-> "Unauthorized", destroys |-> <<>>]

ImageRef(f, caption) == [url |-> f.path, public_id |-> f.filename, caption |-> caption]

RECURSIVE ImageRefs(_, _)
ImageRefs(files, caption) ==
    IF files = <<>> THEN <<>> ELSE <<ImageRef(Head(files), caption)>> \o ImageRefs(Tail(files), caption)

\* Number(req.params.year) and the 'Invalid year' check every route starts with
WithYear(r) ==
    IF JsNumber(r.req.year) = None THEN Done(r, 400, "Invalid year")
    ELSE [r EXCEPT !.year = JsNumber(r.req.year)[1], !.pc = "findOne"]

\* POST /api/content/:year
CreateYearEntry(r) == WithYear(r)

CreateYearOnFindOneOverwriting(r, found) ==
    IF found # None
    THEN [r EXCEPT !.doc = Some(NewContent(found[1]._id, r.year)), !.pc = "save", !.status = 201]
    ELSE [r EXCEPT !.pc = "insert"]

\* const exists = await Content.findOne({ year }); if (exists) return 400
CreateYearOnFindOne(r, found) ==
    IF found # None THEN Done(r, 400, "Content for year already exists")
    ELSE [r EXCEPT !.pc = "insert"]

CreateYearOnInsert(r, doc, ok) ==
    IF ok THEN Done([r EXCEPT !.doc = Some(doc)], 201, "")
    ELSE Done(r, 400, "Content for this year already exists")

\* getOrCreateContentByYear, as called by the routes that write into a year
GetOrCreateOnFindOne(r, found) ==
    IF found # None THEN [r EXCEPT !.doc = found, !.pc = "loaded"] ELSE [r EXCEPT !.pc = "insert"]

GetOrCreateOnInsert(r, doc, ok) ==
    IF ok THEN [r EXCEPT !.doc = Some(doc), !.pc = "loaded"]
    ELSE Done(r, 500, "E11000 duplicate key")

\* POST /api/content/:year/photos
PostPhotosEntry(r) ==
    IF JsNumber(r.req.year) = None THEN Done(r, 400, "Invalid year")
    ELSE IF r.files = <<>> THEN Done(r, 400, "No files uploaded")
    ELSE WithYear(r)

PostPhotosOnLoaded(r) ==
    [r EXCEPT !.doc = Some([r.doc[1] EXCEPT !.photos = @ \o ImageRefs(r.files, r.req.caption)]),
              !.pc = "save"]

\* POST /api/content/:year/partners
PostPartnersEntry(r) ==
    IF JsNumber(r.req.year) = None THEN Done(r, 400, "Invalid year")
    ELSE IF r.files = <<>> THEN Done(r, 400, "No logos uploaded")
    ELSE WithYear(r)

PostPartnersOnLoaded(r) ==
    [r EXCEPT !.doc = Some([r.doc[1] EXCEPT !.partners = @ \o ImageRefs(r.files, <<>>)]),
              !.pc = "save"]

\* DELETE /api/content/:year/photos/:public_id(*)
DeletePhotoEntry(r) == WithYear(r)

DeletePhotoOnFindOne(r, found) ==
    IF found = None THEN Done(r, 404, "Content for year not found")
    ELSE LET doc == found[1]
             k == FindEntry(doc.photos, r.req.id)
         IN  IF k = 0
             THEN [r EXCEPT !.doc = Some([doc EXCEPT !.photos = RemovePartialMatches(@, r.req.id)]),
                            !.pc = "save", !.status = 404,
                            !.message = "Photo not found in DB; attempted to remove any partial matches"]
             ELSE [r EXCEPT !.doc = found, !.at = k, !.pc = "destroy",
                            !.todo = <<DestroyCandidate(doc.photos[k], r.req.id)>>]

DeletePhotoOnDestroyed(r) ==
    [r EXCEPT !.doc = Some([r.doc[1] EXCEPT !.photos = RemovePhoto(@, r.at)]), !.pc = "save"]

\* DELETE /api/content/:year/partners/:public_id(*)
DeletePartnerEntry(r) == WithYear(r)

DeletePartnerOnFindOne(r, found) ==
    IF found = None THEN Done(r, 404, "Content for year not found")
    ELSE LET doc == found[1]
             k == FindEntry(doc.partners, r.req.id)
         IN  IF k = 0
             THEN [r EXCEPT !.doc = Some([doc EXCEPT !.partners = RemovePartialMatches(@, r.req.id)]),
                            !.pc = "save", !.status = 404,
                            !.message = "Partner not found in DB; attempted to remove any partial matches"]
             ELSE [r EXCEPT !.doc = found, !.at = k, !.pc = "destroy",
                            !.todo = <<DestroyCandidate(doc.partners[k], r.req.id)>>]

DeletePartnerOnDestroyed(r) ==
    [r EXCEPT !.doc = Some([r.doc[1] EXCEPT !.partners = RemovePartner(@, r.at)]), !.pc = "save"]

\* PUT /api/content/:year/video
PutVideoEntry(r) ==
    IF JsNumber(r.req.year) = None THEN Done(r, 400, "Invalid year")
    ELSE IF ~Truthy(r.req.videoLink) THEN Done(r, 400, "videoLink is required")
    ELSE WithYear(r)

PutVideoOnLoaded(r) ==
    [r EXCEPT !.doc = Some([r.doc[1] EXCEPT !.videoLink = toYouTubeEmbed(r.req.videoLink)]),
              !.pc = "save"]

\* POST /api/content/:year/video-file
PostVideoFileEntry(r) ==
    IF r.files = <<>> THEN Done(r, 400, "video file required")
    ELSE WithYear(r)

PostVideoFileOnLoaded(r) ==
    [r EXCEPT !.doc = Some([r.doc[1] EXCEPT !.videoLink = r.files[1].path]), !.pc = "save"]

\* { ...cat[role] }: the own enumerable properties of a subdocument are its
\* internals; the stored fields are properties of the object under _doc
SpreadSubdocument(person) == [_doc |-> person, isNew |-> FALSE]

\* delete preserved.photo: removes the own property photo, if the object has one
DeleteOwnPhoto(obj) ==
    IF "photo" \in DOMAIN obj THEN [f \in DOMAIN obj \ {"photo"} |-> obj[f]] ELSE obj

\* cat[role] = value: the setter casts the value to PersonWithPhotoSchema; a spread
\* document is taken by its _doc, and paths the value lacks stay unset
CastPerson(value) ==
    LET v == IF "_doc" \in DOMAIN value THEN value._doc ELSE value
    IN  [name |-> IF "name" \in DOMAIN v THEN v.name ELSE "",
         position |-> IF "position" \in DOMAIN v THEN v.position ELSE "",
         photo |-> IF "photo" \in DOMAIN v THEN v.photo ELSE None]

\* doc.awards = <array>: every element is cast to AwardCategorySchema, which keeps
\* the paths of the schema (category and the three slots) and drops any other key
CastCategory(c) ==
    [category |-> IF "category" \in DOMAIN c THEN c.category ELSE "",
     winner |-> IF "winner" \in DOMAIN c THEN Some(CastPerson(c.winner)) ELSE None,
     firstRunnerUp |-> IF "firstRunnerUp" \in DOMAIN c THEN Some(CastPerson(c.firstRunnerUp)) ELSE None,
     secondRunnerUp |-> IF "secondRunnerUp" \in DOMAIN c THEN Some(CastPerson(c.secondRunnerUp)) ELSE None]

CastAwards(list) == [i \in 1..Len(list) |-> CastCategory(list[i])]

\* POST /api/content/:year/awards
PostAwardsEntry(r) == WithYear(r)

\* const person = { name, position: role } with the uploaded or the referenced photo
AwardPerson(r) ==
    [name |-> r.req.body.name, position |-> r.req.body.role,
     photo |-> IF r.files # <<>>
               THEN Some([url |-> r.files[1].path, public_id |-> r.files[1].filename])
               ELSE IF Truthy(r.req.body.photoUrl) /\ Truthy(r.req.body.public_id)
               THEN Some([url |-> r.req.body.photoUrl, public_id |-> r.req.body.public_id])
               ELSE None]

\* let categoryDoc = doc.awards.find(..); if (!categoryDoc) { categoryDoc = { category };
\* doc.awards.push(categoryDoc); } ... categoryDoc[role] = person;
\* push stores a subdocument cast from { category }; categoryDoc stays the plain
\* object, so for a new category the slot is assigned to an object that is not part
\* of the document.  A category found in the document is a subdocument, and the
\* assignment replaces its slot.
UpsertSlot(awards, category, role, person) ==
    LET k == FindCategory(awards, category)
    IN  IF k = 0 THEN Append(awards, NewCategory(category))
        ELSE [awards EXCEPT ![k] = [@ EXCEPT ![role] = Some(person)]]

PostAwardsOnLoaded(r) ==
    LET doc == r.doc[1]
        body == r.req.body
    IN  IF body.awards # None
        THEN [r EXCEPT !.doc = Some([doc EXCEPT !.awards = CastAwards(body.awards[1])]), !.pc = "save"]
        ELSE IF body.category = "" THEN Done(r, 400, "category required")
        ELSE IF body.role \notin Roles
        THEN Done(r, 400, "role must be one of winner, firstRunnerUp, secondRunnerUp")
        ELSE [r EXCEPT !.doc = Some([doc EXCEPT !.awards =
                                        UpsertSlot(@, body.category, body.role, AwardPerson(r))]),
                       !.pc = "save"]

\* DELETE /api/content/:year/awards/:category/:role/photo
DeleteAwardPhotoEntry(r) ==
    IF JsNumber(r.req.year) = None THEN Done(r, 400, "Invalid year")
    ELSE IF r.req.category = "" THEN Done(r, 400, "Category required")
    ELSE IF r.req.role \notin Roles THEN Done(r, 400, "Invalid role")
    ELSE WithYear(r)

\* const preserved = { ...cat[role] }; delete preserved.photo; cat[role] = preserved;
PreservedSlot(person) == CastPerson(DeleteOwnPhoto(SpreadSubdocument(person)))

DeleteAwardPhotoOnDestroyed(r) ==
    LET doc == r.doc[1]
        person == doc.awards[r.at][r.req.role][1]
        cleared == [doc.awards EXCEPT ![r.at] =
                        [@ EXCEPT ![r.req.role] = Some(PreservedSlot(person))]]
        gallery == IF person.photo = None THEN doc.photos
                   ELSE SelectIndices(doc.photos, {i \in 1..Len(doc.photos) :
                            ~SameAsSlotPhoto(doc.photos[i], person.photo[1])})
    IN  [r EXCEPT !.doc = Some([doc EXCEPT !.awards = cleared, !.photos = gallery]), !.pc = "save"]

DeleteAwardPhotoOnFindOne(r, found) ==
    IF found = None THEN Done(r, 404, "Content for year not found")
    ELSE LET doc == found[1]
             k == FindCategory(doc.awards, r.req.category)
         IN  IF k = 0 THEN Done(r, 404, "Award category not found")
             ELSE IF doc.awards[k][r.req.role] = None THEN Done(r, 404, "Role not set")
             ELSE LET photo == doc.awards[k][r.req.role][1].photo
                      todo == IF photo = None THEN <<>> ELSE PhotoCandidates(photo[1])
                      r2 == [r EXCEPT !.doc = found, !.at = k, !.todo = todo, !.pc = "destroy"]
                  IN  IF todo = <<>> THEN DeleteAwardPhotoOnDestroyed(r2) ELSE r2

\* DELETE /api/content/:year/awards/:category(*)
DeleteAwardCategoryEntry(r) ==
    IF JsNumber(r.req.year) = None THEN Done(r, 400, "Invalid year")
    ELSE IF r.req.category = "" THEN Done(r, 400, "Category required")
    ELSE WithYear(r)

DeleteAwardCategoryOnDestroyed(r) ==
    LET doc == r.doc[1]
        idsOrUrls == PhotoUrlsOrIds(SlotPhotos(doc.awards[r.at]))
        awards == SelectIndices(doc.awards, {i \in 1..Len(doc.awards) :
                      doc.awards[i].category # r.req.category})
        gallery == SelectIndices(doc.photos, {i \in 1..Len(doc.photos) :
                       ~MatchesAnyOf(doc.photos[i], idsOrUrls)})
    IN  [r EXCEPT !.doc = Some([doc EXCEPT !.awards = awards, !.photos = gallery]), !.pc = "save"]

DeleteAwardCategoryOnFindOne(r, found) ==
    IF found = None THEN Done(r, 404, "Content for year not found")
    ELSE LET doc == found[1]
             k == FindCategory(doc.awards, r.req.category)
         IN  IF k = 0 THEN Done(r, 404, "Award category not found")
             ELSE LET todo == AllCandidates(SlotPhotos(doc.awards[k]))
                      r2 == [r EXCEPT !.doc = found, !.at = k, !.todo = todo, !.pc = "destroy"]
                  IN  IF todo = <<>> THEN DeleteAwardCategoryOnDestroyed(r2) ELSE r2

\* GET /api/content: Content.find({}, { year: 1, .. }).sort({ year: -1 })
RECURSIVE SortedByYearDescending(_)
SortedByYearDescending(docs) ==
    IF docs = {} THEN <<>>
    ELSE LET top == CHOOSE d \in docs : \A e \in docs : e.year <= d.year
         IN  <<[_id |-> top._id, year |-> top.year]>> \o SortedByYearDescending(docs \ {top})

GetContentListEntry(r) == [r EXCEPT !.pc = "find"]

GetContentListOnFind(r, docs) == Done([r EXCEPT !.doc = Some([list |-> SortedByYearDescending(docs)])], 200, "")

\* GET /api/content/:year
GetContentYearEntry(r) == WithYear(r)

\* the lookup answering with an empty record for a year that has none
GetContentYearOnFindOneAsEmpty(r, found) ==
    IF found = None THEN Done([r EXCEPT !.doc = Some(NewContent(0, r.year))], 200, "")
    ELSE Done([r EXCEPT !.doc = found], 200, "")

GetContentYearOnFindOne(r, found) ==
    IF found = None THEN Done(r, 404, "Content for year not found")
    ELSE Done([r EXCEPT !.doc = found], 200, "")

\* GET /api/content/:year/awards/:category: the year is not checked, and the
\* lookup of a year that is not a number throws (cast error), answered 500
GetAwardCategoryEntry(r) ==
    IF JsNumber(r.req.year) = None THEN Done(r, 500, "Cast to Number failed")
    ELSE [r EXCEPT !.year = JsNumber(r.req.year)[1], !.pc = "findOne"]

GetAwardCategoryOnFindOne(r, found) ==
    IF found = None THEN Done(r, 404, "Content for year not found")
    ELSE LET k == FindCategory(found[1].awards, r.req.category)
         IN  IF k = 0 THEN Done(r, 404, "Category not found")
             ELSE Done([r EXCEPT !.doc = Some(found[1].awards[k])], 200, "")

GetOrCreateOps == {"postPhotos", "postPartners", "putVideo", "postVideoFile", "postAwards"}

\* the code of each route between two awaits
HandlerEntry(r) ==
    CASE r.op = "createYear" -> CreateYearEntry(r)
      [] r.op = "putVideo" -> PutVideoEntry(r)
      [] r.op = "postVideoFile" -> PostVideoFileEntry(r)
      [] r.op = "postPhotos" -> PostPhotosEntry(r)
      [] r.op = "deletePhoto" -> DeletePhotoEntry(r)
      [] r.op = "postAwards" -> PostAwardsEntry(r)
      [] r.op = "deleteAwardPhoto" -> DeleteAwardPhotoEntry(r)
      [] r.op = "deleteAwardCategory" -> DeleteAwardCategoryEntry(r)
      [] r.op = "postPartners" -> PostPartnersEntry(r)
      [] r.op = "deletePartner" -> DeletePartnerEntry(r)
      [] r.op = "getContentList" -> GetContentListEntry(r)
      [] r.op = "getContentYear" -> GetContentYearEntry(r)
      [] r.op = "getAwardCategory" -> GetAwardCategoryEntry(r)

OnLoaded(r) ==
    IF r.pc # "loaded" THEN r
    ELSE CASE r.op = "putVideo" -> PutVideoOnLoaded(r)
           [] r.op = "postVideoFile" -> PostVideoFileOnLoaded(r)
           [] r.op = "postPhotos" -> PostPhotosOnLoaded(r)
           [] r.op = "postAwards" -> PostAwardsOnLoaded(r)
           [] r.op = "postPartners" -> PostPartnersOnLoaded(r)

\* the document a request holds keeps, beside its current values, the values it
\* was loaded with (base): doc.save() writes the paths that were modified since
AsLoaded(r, found) == [r EXCEPT !.base = found]

OnFindOne(r, found) ==
    CASE r.op = "createYear" -> CreateYearOnFindOne(AsLoaded(r, found), found)
      [] r.op \in GetOrCreateOps -> OnLoaded(GetOrCreateOnFindOne(AsLoaded(r, found), found))
      [] r.op = "deletePhoto" -> DeletePhotoOnFindOne(AsLoaded(r, found), found)
      [] r.op = "deleteAwardPhoto" -> DeleteAwardPhotoOnFindOne(AsLoaded(r, found), found)
      [] r.op = "deleteAwardCategory" -> DeleteAwardCategoryOnFindOne(AsLoaded(r, found), found)
      [] r.op = "deletePartner" -> DeletePartnerOnFindOne(AsLoaded(r, found), found)
      [] r.op = "getContentYear" -> GetContentYearOnFindOne(r, found)
      [] r.op = "getAwardCategory" -> GetAwardCategoryOnFindOne(r, found)

OnInsert(r, doc, ok) ==
    CASE r.op = "createYear" -> CreateYearOnInsert(r, doc, ok)
      [] r.op \in GetOrCreateOps ->
             OnLoaded(GetOrCreateOnInsert(AsLoaded(r, IF ok THEN Some(doc) ELSE None), doc, ok))

OnDestroyed(r) ==
    IF r.todo # <<>> THEN r
    ELSE CASE r.op = "deletePhoto" -> DeletePhotoOnDestroyed(r)
           [] r.op = "deleteAwardPhoto" -> DeleteAwardPhotoOnDestroyed(r)
           [] r.op = "deleteAwardCategory" -> DeleteAwardCategoryOnDestroyed(r)
           [] r.op = "deletePartner" -> DeletePartnerOnDestroyed(r)

\* the request either waits at its next await or responds
Settle(s, r) ==
    IF r.pc = "done"
    THEN /\ inflight' = [inflight EXCEPT ![s] = Idle]
         /\ resp' = Reply(r)
    ELSE /\ inflight' = [inflight EXCEPT ![s] = r]
         /\ resp' = NoResp

\* a request arrives at a content route: adminAuth, then multer (if the route
\* has one and the request carries files), then the handler
Arrive(s, op, req) ==
    /\ IsNextSlot(s)
    /\ LET user == adminAuth(req.cred)
       IN  IF user = None
           THEN /\ resp' = GateRejected(op, req)
                /\ UNCHANGED inflight
           ELSE LET r == Admitted(op, req, user[1])
                IN  IF req.names # <<>>
                    THEN Settle(s, [r EXCEPT !.pc = "upload", !.todo = req.names])
                    ELSE Settle(s, HandlerEntry(r))
    /\ UNCHANGED <<AdminUser, Content, cloudinary, now, issued, oidSeq>>

\* a request arrives at a route registered without adminAuth: the handler runs
\* whatever headers the request carries
Receive(s, op, req) ==
    /\ IsNextSlot(s)
    /\ Settle(s, HandlerEntry(Admitted(op, req, Anyone)))
    /\ UNCHANGED <<AdminUser, Content, cloudinary, now, issued, oidSeq>>

GetContentList(s, cred) ==
    Receive(s, "getContentList", [cred |-> cred, year |-> <<>>, names |-> <<>>])

GetContentYear(s, cred, year) ==
    Receive(s, "getContentYear", [cred |-> cred, year |-> year, names |-> <<>>])

GetAwardCategory(s, cred, year, category) ==
    Receive(s, "getAwardCategory", [cred |-> cred, year |-> year, category |-> category, names |-> <<>>])

ListLength(year, field) ==
    IF JsNumber(year) # None /\ ContentFindOne(JsNumber(year)[1]) # None
    THEN Len(ContentFindOne(JsNumber(year)[1])[1][field])
    ELSE 0

PostContentYear(s, cred, year) ==
    Arrive(s, "createYear", [cred |-> cred, year |-> year, names |-> <<>>])

\* POST /api/content/reset: adminAuth, then Content.deleteMany({})
PostContentReset(s, cred) ==
    /\ IsNextSlot(s)
    /\ LET req == [cred |-> cred, year |-> <<"r","e","s","e","t">>, names |-> <<>>]
       IN  IF adminAuth(cred) = None
           THEN /\ resp' = GateRejected("reset", req)
                /\ UNCHANGED Content
           ELSE /\ Content' = {}
                /\ resp' = Reply(Done(Admitted("reset", req, adminAuth(cred)[1]), 200,
                                      "All content deleted"))
    /\ UNCHANGED <<AdminUser, cloudinary, now, issued, oidSeq, inflight>>

\* the POST routes on one path segment under /api/content/, in the order app.post registers them
PostSegmentRoutes ==
    << [pattern |-> <<":","y","e","a","r">>, handler |-> "createYear"],
       [pattern |-> <<"r","e","s","e","t">>, handler |-> "reset"] >>

\* a :param pattern matches any non-empty segment, a literal one only itself
PatternMatches(pattern, segment) ==
    IF Head(pattern) = ":" THEN segment # <<>> ELSE pattern = segment

\* Express hands the request to the first registered route that matches
FirstMatch(routes, segment) ==
    routes[CHOOSE i \in 1..Len(routes) :
               /\ PatternMatches(routes[i].pattern, segment)
               /\ \A j \in 1..(i - 1) : ~PatternMatches(routes[j].pattern, segment)].handler

\* POST /api/content/<segment>
PostContent(s, cred, segment) ==
    IF FirstMatch(PostSegmentRoutes, segment) = "createYear"
    THEN PostContentYear(s, cred, segment)
    ELSE PostContentReset(s, cred)

PutVideo(s, cred, year, videoLink) ==
    Arrive(s, "putVideo", [cred |-> cred, year |-> year, names |-> <<>>, videoLink |-> videoLink])

PostVideoFile(s, cred, year, names) ==
    /\ Len(names) <= 1
    /\ Arrive(s, "postVideoFile",
              [cred |-> cred, year |-> year, names |-> names,
               originalUrl |-> ApiContent \o year \o <<"/","v","i","d","e","o","-","f","i","l","e">>])

PostAwards(s, cred, year, names, body) ==
    /\ Len(names) <= 1
    /\ Arrive(s, "postAwards",
              [cred |-> cred, year |-> year, names |-> names, body |-> body,
               originalUrl |-> ApiContent \o year \o <<"/","a","w","a","r","d","s">>])

DeleteAwardPhoto(s, cred, year, category, role) ==
    Arrive(s, "deleteAwardPhoto",
           [cred |-> cred, year |-> year, names |-> <<>>, category |-> category, role |-> role])

DeleteAwardCategory(s, cred, year, category) ==
    Arrive(s, "deleteAwardCategory",
           [cred |-> cred, year |-> year, names |-> <<>>, category |-> category])

PostPhotos(s, cred, year, names, caption) ==
    /\ ListLength(year, "photos") + Len(names) <= MaxEntries
    /\ Arrive(s, "postPhotos",
              [cred |-> cred, year |-> year, names |-> names, caption |-> caption,
               originalUrl |-> ApiContent \o year \o <<"/","p","h","o","t","o","s">>])

PostPartners(s, cred, year, names) ==
    /\ ListLength(year, "partners") + Len(names) <= MaxEntries
    /\ Arrive(s, "postPartners",
              [cred |-> cred, year |-> year, names |-> names,
               originalUrl |-> ApiContent \o year \o <<"/","p","a","r","t","n","e","r","s">>])

DeletePhoto(s, cred, year, id) ==
    Arrive(s, "deletePhoto", [cred |-> cred, year |-> year, id |-> id, names |-> <<>>])

DeletePartner(s, cred, year, id) ==
    Arrive(s, "deletePartner", [cred |-> cred, year |-> year, id |-> id, names |-> <<>>])

\* multer stores the next file of the request in the remote store
UploadFile(s) ==
    /\ inflight[s].op \notin {"idle", "register"}
    /\ inflight[s].pc = "upload"
    /\ LET r == inflight[s]
           name == Head(r.todo)
           f == IF r.op = "postVideoFile" THEN StoredVideo(name)
                ELSE StoredFile(ImagesFolder(r.req.originalUrl), ImagesPublicId(name), name)
           r2 == [r EXCEPT !.todo = Tail(@), !.files = Append(@, f)]
       IN  /\ cloudinary' = cloudinary \cup {f.filename}
           /\ Settle(s, IF r2.todo = <<>> THEN HandlerEntry(r2) ELSE r2)
    /\ UNCHANGED <<AdminUser, Content, now, issued, oidSeq>>

\* await Content.findOne({ year })
FindOne(s) ==
    /\ inflight[s].op \notin {"idle", "register"}
    /\ inflight[s].pc = "findOne"
    /\ Settle(s, OnFindOne(inflight[s], ContentFindOne(inflight[s].year)))
    /\ UNCHANGED <<AdminUser, Content, cloudinary, now, issued, oidSeq>>

\* await Content.find({}, ..).sort(..)
Find(s) ==
    /\ inflight[s].op \notin {"idle", "register"}
    /\ inflight[s].pc = "find"
    /\ Settle(s, GetContentListOnFind(inflight[s], Content))
    /\ UNCHANGED <<AdminUser, Content, cloudinary, now, issued, oidSeq>>

\* await doc.save() of a new document: the unique index decides
InsertDoc(s) ==
    /\ inflight[s].op \notin {"idle", "register"}
    /\ inflight[s].pc = "insert"
    /\ LET r == inflight[s]
           doc == NewContent(oidSeq.Content + 1, r.year)
       IN  IF ContentInsertAllowed(doc)
           THEN /\ Content' = Content \cup {doc}
                /\ oidSeq' = [oidSeq EXCEPT !.Content = @ + 1]
                /\ Settle(s, OnInsert(r, doc, TRUE))
           ELSE /\ UNCHANGED <<Content, oidSeq>>
                /\ Settle(s, OnInsert(r, doc, FALSE))
    /\ UNCHANGED <<AdminUser, cloudinary, now, issued>>

DestroyOutcomes == {"ok", "not found", "error"}

\* the handler with the remote error left to reach the route's outer catch
AfterDestroyRethrowing(r, key, outcome) ==
    IF outcome = "error" THEN Done(r, 500, "Server error")
    ELSE OnDestroyed([r EXCEPT !.todo = Tail(@), !.destroys = Append(@, key)])

\* the handler trying the same candidate again after a remote error
AfterDestroyRetrying(r, key, outcome) ==
    IF outcome = "error" THEN [r EXCEPT !.destroys = Append(@, key)]
    ELSE OnDestroyed([r EXCEPT !.todo = Tail(@), !.destroys = Append(@, key)])

\* try { await cloudinary.uploader.destroy(..); console.log(..) } catch (e) { console.warn(..) }
\* the result and the error are only logged; the handler goes on either way
AfterDestroy(r, key, outcome) ==
    OnDestroyed([r EXCEPT !.todo = Tail(@), !.destroys = Append(@, key)])

\* the remote delete issued under a lock shared by all requests: it waits while a
\* request that arrived in a lower slot is at a remote delete
DestroyUnderGlobalLock(s, outcome) ==
    /\ inflight[s].op \notin {"idle", "register"}
    /\ inflight[s].pc = "destroy"
    /\ \A t \in Slots : t < s => (IF inflight[t] = Idle THEN TRUE ELSE inflight[t].pc # "destroy")
    /\ LET r == inflight[s]
           key == Head(r.todo)
       IN  /\ outcome = "ok" => key \in cloudinary
           /\ outcome = "not found" => key \notin cloudinary
           /\ cloudinary' = IF outcome = "ok" THEN cloudinary \ {key} ELSE cloudinary
           /\ Settle(s, AfterDestroy(r, key, outcome))
    /\ UNCHANGED <<AdminUser, Content, now, issued, oidSeq>>

\* await cloudinary.uploader.destroy(candidate) inside try/catch
Destroy(s, outcome) ==
    /\ inflight[s].op \notin {"idle", "register"}
    /\ inflight[s].pc = "destroy"
    /\ LET r == inflight[s]
           key == Head(r.todo)
       IN  /\ outcome = "ok" => key \in cloudinary
           /\ outcome = "not found" => key \notin cloudinary
           /\ cloudinary' = IF outcome = "ok" THEN cloudinary \ {key} ELSE cloudinary
           /\ Settle(s, AfterDestroy(r, key, outcome))
    /\ UNCHANGED <<AdminUser, Content, now, issued, oidSeq>>

ArrayPaths == {"photos", "awards", "partners"}

\* what doc.save() sends for one array path of a loaded document:
\*   "push"     doc.<path>.push(..) was called: the pushed elements are appended to
\*              the stored array, and the version of the document is incremented;
\*   "element"  a slot of one category was assigned: that slot of the stored array
\*              is set, provided the stored version is the loaded one;
\*   "set"      the array was assigned a different value: the stored array is
\*              replaced, provided the stored version is the loaded one, and the
\*              version is incremented;
\*   "none"     the path was not modified and is not written.
\* (ContentSchema is declared with the default options, so documents carry the
\* version key.)  A slot assigned a plain object is a new subdocument and always
\* counts as modified; an array or a slot assigned an equal value does not.
PathWrite(r, path) ==
    LET base == r.base[1][path]
        new == r.doc[1][path]
    IN  IF r.op = "postPhotos" /\ path = "photos" THEN "push"
        ELSE IF r.op = "postPartners" /\ path = "partners" THEN "push"
        ELSE IF r.op = "postAwards" /\ path = "awards"
        THEN (IF r.req.body.awards # None THEN (IF new = base THEN "none" ELSE "set")
              ELSE IF Len(new) > Len(base) THEN "push" ELSE "element")
        ELSE IF new = base THEN "none"
        ELSE IF r.op = "deleteAwardPhoto" /\ path = "awards" THEN "element"
        ELSE "set"

VersionChecked(r) == \E path \in ArrayPaths : PathWrite(r, path) \in {"element", "set"}
VersionIncremented(r) == \E path \in ArrayPaths : PathWrite(r, path) \in {"push", "set"}

\* the slot an "element" write addresses
ElementWritten(r) ==
    IF r.op = "postAwards"
    THEN [at |-> FindCategory(r.base[1].awards, r.req.body.category), role |-> r.req.body.role]
    ELSE [at |-> r.at, role |-> r.req.role]

\* the stored document after the write
Written(r, stored) ==
    LET base == r.base[1]
        new == r.doc[1]
        array(path) ==
            CASE PathWrite(r, path) = "none" -> stored[path]
              [] PathWrite(r, path) = "push" ->
                     stored[path] \o SubSeq(new[path], Len(base[path]) + 1, Len(new[path]))
              [] PathWrite(r, path) = "set" -> new[path]
              [] PathWrite(r, path) = "element" ->
                     LET e == ElementWritten(r)
                     IN  [stored[path] EXCEPT ![e.at] = [@ EXCEPT ![e.role] = new[path][e.at][e.role]]]
    IN  [stored EXCEPT !.videoLink = IF new.videoLink = base.videoLink THEN @ ELSE new.videoLink,
                       !.photos = array("photos"),
                       !.awards = array("awards"),
                       !.partners = array("partners")]

\* a request that holds the document with the given _id now holds an old version
Outdated(x, id) ==
    IF x.op \in {"idle", "register"} THEN x
    ELSE IF x.doc # None /\ x.doc[1]._id = id THEN [x EXCEPT !.stale = TRUE]
    ELSE x

\* await doc.save() of a loaded document (schema validation, then the write of the
\* modified paths), then the response
SaveDoc(s) ==
    /\ inflight[s].op \notin {"idle", "register"}
    /\ inflight[s].pc = "save"
    /\ LET r == inflight[s]
           id == r.doc[1]._id
       IN  IF ~AwardsValid(r.doc[1].awards)
           THEN /\ UNCHANGED Content
                /\ Settle(s, Done(r, 500, "validation failed"))
           ELSE IF \A d \in Content : d._id # id
           THEN /\ UNCHANGED Content
                /\ Settle(s, Done(r, 500, "DocumentNotFoundError"))
           ELSE IF VersionChecked(r) /\ r.stale
           THEN /\ UNCHANGED Content
                /\ Settle(s, Done(r, 500, "VersionError"))
           ELSE /\ Content' = ContentReplace(Written(r, CHOOSE d \in Content : d._id = id))
                /\ inflight' = [t \in Slots |->
                                   IF t = s THEN Idle
                                   ELSE IF VersionIncremented(r) THEN Outdated(inflight[t], id)
                                   ELSE inflight[t]]
                /\ resp' = Reply([r EXCEPT !.pc = "done"])
    /\ UNCHANGED <<AdminUser, cloudinary, now, issued, oidSeq>>

\* the failing await with the document written before the error is raised
StoreUnreachableAfterWrite(s) ==
    /\ inflight[s].op \notin {"idle", "register"}
    /\ inflight[s].pc \in {"findOne", "insert", "save"}
    /\ Content' = IF inflight[s].pc = "save" THEN ContentReplace(inflight[s].doc[1]) ELSE Content
    /\ Settle(s, Done(inflight[s], 500, "Server error"))
    /\ UNCHANGED <<AdminUser, cloudinary, now, issued, oidSeq>>

\* an await on the document store (findOne, or save of a new or a loaded document)
\* throws: the route's catch answers res.status(500)
StoreUnreachable(s) ==
    /\ inflight[s].op \notin {"idle", "register"}
    /\ inflight[s].pc \in {"findOne", "insert", "save"}
    /\ Settle(s, Done(inflight[s], 500, "Server error"))
    /\ UNCHANGED <<AdminUser, Content, cloudinary, now, issued, oidSeq>>

\* the remote store refuses the next file: multer passes the error on instead of
\* calling the handler, and the request is answered 500; files of the same request
\* stored before stay in the remote store
UploadFails(s) ==
    /\ inflight[s].op \notin {"idle", "register"}
    /\ inflight[s].pc = "upload"
    /\ Settle(s, Done(inflight[s], 500, "Upload/server error"))
    /\ UNCHANGED <<AdminUser, Content, cloudinary, now, issued, oidSeq>>

-----------------------------------------------------------------------------
(* Environment *)

\* time passes
Tick ==
    /\ now + TickHours <= MaxNow
    /\ now' = now + TickHours
    /\ resp' = NoResp
    /\ UNCHANGED <<AdminUser, Content, cloudinary, issued, oidSeq, inflight>>

\* an account document disappears from the collection (the server has no route
\* for it; verifyJwtToken provides for it)
AccountRemoved(u) ==
    /\ u \in AdminUser
    /\ AdminUser' = AdminUser \ {u}
    /\ resp' = NoResp
    /\ UNCHANGED <<Content, cloudinary, now, issued, oidSeq, inflight>>

-----------------------------------------------------------------------------
(* Specifications *)

Init ==
    /\ AdminUser = {}
    /\ Content = {}
    /\ cloudinary = {}
    /\ now = 0
    /\ issued = {}
    /\ oidSeq = [AdminUser |-> 0, Content |-> 0]
    /\ inflight = [s \in Slots |-> Idle]
    /\ resp = NoResp

\* The gate under every kind of credential, with time passing and accounts
\* disappearing; one account holder
NextAuth ==
    \/ \E s \in Slots :
          RegisterBegin(s, [authorization |-> None, key |-> ADMIN_KEY],
                        [email |-> EmailA, password |-> "pw1"])
    \/ \E s \in Slots : RegisterSave(s)
    \/ \E email \in {EmailAVariant, EmailB, <<>>}, pw \in {"pw1", "pw2", ""} :
          Login([email |-> email, password |-> pw])
    \/ \E cred \in Credentials : Me(cred)
    \/ Tick
    \/ \E u \in AdminUser : AccountRemoved(u)

SpecAuth == Init /\ [][NextAuth]_vars

\* Registration by clients holding any key and any issued token, two requests
\* at a time
RegisterCredentials ==
    [authorization : {None} \cup {Some([scheme |-> <<"B","e","a","r","e","r">>, token |-> t]) : t \in issued},
     key : KeyHeaders]

NextRegister ==
    \/ \E s \in Slots, cred \in RegisterCredentials,
          email \in {EmailA, EmailAVariant, EmailB, <<>>}, pw \in {"pw1", ""} :
          RegisterBegin(s, cred, [email |-> email, password |-> pw])
    \/ \E s \in Slots : RegisterSave(s)
    \/ Login([email |-> EmailA, password |-> "pw1"])

SpecRegister == Init /\ [][NextRegister]_vars

\* the media of one year, one request at a time, by the holder of the shared secret
KeyCredential == [authorization |-> None, key |-> ADMIN_KEY]
Year2024 == <<"2","0","2","4">>
FileA == <<"a",".","j","p","g">>
FileAB == <<"a","b",".","j","p","g">>
NoSuchId == <<"z","z","z">>
PublicIdsOf(field) == UNION {{d[field][i].public_id : i \in 1..Len(d[field])} : d \in Content}

NextMedia ==
    \/ \E s \in Slots, names \in {<<FileAB, FileA>>, <<FileA>>, <<>>} :
           Alone /\ PostPhotos(s, KeyCredential, Year2024, names, <<>>)
    \/ \E s \in Slots : Alone /\ PostPartners(s, KeyCredential, Year2024, <<FileA>>)
    \/ \E s \in Slots, id \in PublicIdsOf("photos") \cup {NoSuchId} :
           Alone /\ DeletePhoto(s, KeyCredential, Year2024, id)
    \/ \E s \in Slots, id \in PublicIdsOf("partners") \cup {NoSuchId} :
           Alone /\ DeletePartner(s, KeyCredential, Year2024, id)
    \/ \E s \in Slots : UploadFile(s)
    \/ \E s \in Slots : FindOne(s)
    \/ \E s \in Slots : InsertDoc(s)
    \/ \E s \in Slots, outcome \in DestroyOutcomes : Destroy(s, outcome)
    \/ \E s \in Slots : SaveDoc(s)
    \/ (now < MaxStamp /\ Tick)

SpecMedia == Init /\ [][NextMedia]_vars

\* explicit creates and get-or-create writes of two years, interleaved at every await
Year2025 == <<"2","0","2","5">>

NextCreate ==
    \/ \E s \in Slots, segment \in {Year2024, Year2025, <<"r","e","s","e","t">>} :
           PostContent(s, KeyCredential, segment)
    \/ \E s \in Slots : PostPhotos(s, KeyCredential, Year2024, <<FileA>>, <<>>)
    \/ \E s \in Slots : UploadFile(s)
    \/ \E s \in Slots : FindOne(s)
    \/ \E s \in Slots : InsertDoc(s)
    \/ \E s \in Slots : SaveDoc(s)

SpecCreate == Init /\ [][NextCreate]_vars

\* every mutating content endpoint, one request at a time, under accepted and
\* rejected credentials; the gallery and the partner list hold at most one entry
GateCredentials ==
    {c \in Credentials :
        \/ c.authorization = None /\ c.key # "ADMIN-KEY"
        \/ c.authorization # None /\ c.authorization[1].scheme = <<"B","e","a","r","e","r">>
                                  /\ c.key # ""}

ShortLink == <<"h","t","t","p","s",":","/","/","y","o","u","t","u",".","b","e","/","a","b","c">>
FileMp4 == <<"a",".","m","p","4">>
SlotBody ==
    [awards |-> None, category |-> "best", role |-> "winner", name |-> "ada",
     photoUrl |-> <<>>, public_id |-> <<>>]

NextGate ==
    \/ \E s \in Slots, cred \in GateCredentials, segment \in {Year2024, <<"r","e","s","e","t">>} :
           Alone /\ PostContent(s, cred, segment)
    \/ \E s \in Slots, cred \in GateCredentials : Alone /\ PutVideo(s, cred, Year2024, ShortLink)
    \/ \E s \in Slots, cred \in GateCredentials :
           Alone /\ PostVideoFile(s, cred, Year2024, <<FileMp4>>)
    \/ \E s \in Slots, cred \in GateCredentials :
           Alone /\ ListLength(Year2024, "photos") = 0
                 /\ PostPhotos(s, cred, Year2024, <<FileA>>, <<>>)
    \/ \E s \in Slots, cred \in GateCredentials, id \in PublicIdsOf("photos") :
           Alone /\ DeletePhoto(s, cred, Year2024, id)
    \/ \E s \in Slots, cred \in GateCredentials :
           Alone /\ PostAwards(s, cred, Year2024, <<FileA>>, SlotBody)
    \/ \E s \in Slots, cred \in GateCredentials :
           Alone /\ DeleteAwardPhoto(s, cred, Year2024, "best", "winner")
    \/ \E s \in Slots, cred \in GateCredentials :
           Alone /\ DeleteAwardCategory(s, cred, Year2024, "best")
    \/ \E s \in Slots, cred \in GateCredentials :
           Alone /\ ListLength(Year2024, "partners") = 0
                 /\ PostPartners(s, cred, Year2024, <<FileA>>)
    \/ \E s \in Slots, cred \in GateCredentials, id \in PublicIdsOf("partners") :
           Alone /\ DeletePartner(s, cred, Year2024, id)
    \/ \E s \in Slots : UploadFile(s)
    \/ \E s \in Slots : FindOne(s)
    \/ \E s \in Slots : InsertDoc(s)
    \/ \E s \in Slots, outcome \in {"ok", "not found"} : Destroy(s, outcome)
    \/ \E s \in Slots : SaveDoc(s)
    \/ \E s \in Slots :
           Alone /\ RegisterBegin(s, KeyCredential, [email |-> EmailA, password |-> "pw1"])
    \/ \E s \in Slots : RegisterSave(s)

SpecGate == Init /\ [][NextGate]_vars

\* the awards of one year with a gallery entry beside them, one request at a time:
\* slots filled with an uploaded photo, with a reference to the gallery photo, or
\* with no photo, then cleared or removed under every remote outcome
Best == "best"
Other == "other"
GalleryKey == <<"e","v","e","n","t","s","/","p","h","o","t","o","s","/","0","-","a">>
GalleryUrl == CdnBase \o GalleryKey \o <<".","j","p","g">>

\* the same asset under another delivery version, named by a key of the sender's choosing
GalleryUrlV2 == <<"h","t","t","p","s",":","/","/","c","d","n",".","i","o","/","i","m","a","g","e","/","u","p","l","o","a","d","/","v","2","/">>
                    \o GalleryKey \o <<".","j","p","g">>
OwnKey == <<"a","d","a">>
PhotoRefs ==
    { [photoUrl |-> GalleryUrl, public_id |-> GalleryKey],
      [photoUrl |-> GalleryUrlV2, public_id |-> OwnKey] }

AwardBody(category, role, name, photoUrl, public_id) ==
    [awards |-> None, category |-> category, role |-> role, name |-> name,
     photoUrl |-> photoUrl, public_id |-> public_id]

AwardCategories == {Best, Other}
AwardRoles == {"winner", "firstRunnerUp"}

NextAwards ==
    \/ \E s \in Slots :
           Alone /\ ListLength(Year2024, "photos") = 0
                 /\ PostPhotos(s, KeyCredential, Year2024, <<FileA>>, <<>>)
    \/ \E s \in Slots, category \in AwardCategories, role \in AwardRoles :
           Alone /\ (category = Other => role = "winner")
                 /\ PostAwards(s, KeyCredential, Year2024, <<FileA>>,
                               AwardBody(category, role, "ada", <<>>, <<>>))
    \/ \E s \in Slots, category \in AwardCategories, ref \in PhotoRefs :
           Alone /\ (category = Other => ref.public_id = GalleryKey)
                 /\ PostAwards(s, KeyCredential, Year2024, <<>>,
                               AwardBody(category, "winner", "ada", ref.photoUrl, ref.public_id))
    \/ \E s \in Slots :
           Alone /\ PostAwards(s, KeyCredential, Year2024, <<>>,
                               AwardBody(Best, "winner", "bob", <<>>, <<>>))
    \/ \E s \in Slots, category \in AwardCategories, role \in AwardRoles :
           Alone /\ DeleteAwardPhoto(s, KeyCredential, Year2024, category, role)
    \/ \E s \in Slots, category \in AwardCategories :
           Alone /\ DeleteAwardCategory(s, KeyCredential, Year2024, category)
    \/ \E s \in Slots, id \in PublicIdsOf("photos") :
           Alone /\ DeletePhoto(s, KeyCredential, Year2024, id)
    \/ \E s \in Slots : UploadFile(s)
    \/ \E s \in Slots : FindOne(s)
    \/ \E s \in Slots : InsertDoc(s)
    \/ \E s \in Slots, outcome \in DestroyOutcomes : Destroy(s, outcome)
    \/ \E s \in Slots : SaveDoc(s)

SpecAwards == Init /\ [][NextAwards]_vars

\* requests that pass and requests that fail each route's validation, for a year
\* with and without a record, one request at a time
NotAYear == <<"a","b","c">>

NextValidation ==
    \/ \E s \in Slots, year \in {Year2024, NotAYear} :
           Alone /\ PostContent(s, KeyCredential, year)
    \/ \E s \in Slots, year \in {Year2024, NotAYear}, videoLink \in {ShortLink, <<>>} :
           Alone /\ PutVideo(s, KeyCredential, year, videoLink)
    \/ \E s \in Slots, year \in {Year2024, NotAYear}, names \in {<<FileMp4>>, <<>>} :
           Alone /\ PostVideoFile(s, KeyCredential, year, names)
    \/ \E s \in Slots, year \in {Year2024, NotAYear}, names \in {<<FileA>>, <<>>} :
           Alone /\ ListLength(Year2024, "photos") = 0
                 /\ PostPhotos(s, KeyCredential, year, names, <<>>)
    \/ \E s \in Slots, year \in {Year2024, NotAYear}, names \in {<<FileA>>, <<>>} :
           Alone /\ ListLength(Year2024, "partners") = 0
                 /\ PostPartners(s, KeyCredential, year, names)
    \/ \E s \in Slots, year \in {Year2024, NotAYear},
          category \in {Best, ""}, role \in {"winner", "", "judge"} :
           Alone /\ PostAwards(s, KeyCredential, year, <<>>,
                               AwardBody(category, role, "ada", <<>>, <<>>))
    \/ \E s \in Slots : UploadFile(s)
    \/ \E s \in Slots : FindOne(s)
    \/ \E s \in Slots : InsertDoc(s)
    \/ \E s \in Slots : SaveDoc(s)

SpecValidation == Init /\ [][NextValidation]_vars

\* the video link of one year set from links of every shape the normalization
\* distinguishes, one request at a time
VideoIds == {<<"a","b","c">>, <<"x","y","z","7","8","9">>, <<"d","Q","w","4","w","9","W","g","X","c","Q">>}
ShortLinkBase == <<"h","t","t","p","s",":","/","/","y","o","u","t","u",".","b","e","/">>
WatchLinkBase == <<"h","t","t","p","s",":","/","/","w","w","w",".","y","o","u","t","u","b","e",".","c","o","m","/","w","a","t","c","h","?">>
MobileWatchBase == <<"h","t","t","p","s",":","/","/","m",".","y","o","u","t","u","b","e",".","c","o","m","/","w","a","t","c","h","?">>
TimeParameter == <<"t","=","1","0">>
OtherPlayer == <<"h","t","t","p","s",":","/","/","v","i","m","e","o",".","c","o","m","/","1","2","3">>
BareId == <<"d","Q","w","4","w","9","W","g","X","c","Q">>
ShortLinks == {ShortLinkBase \o id : id \in VideoIds} \cup {ShortLinkBase \o id \o <<"?">> \o TimeParameter : id \in VideoIds}
WatchLinks ==
    {WatchLinkBase \o <<"v","=">> \o id : id \in VideoIds}
        \cup {WatchLinkBase \o TimeParameter \o <<"&","v","=">> \o id : id \in VideoIds}
        \cup {MobileWatchBase \o <<"v","=">> \o id \o <<"&">> \o TimeParameter : id \in VideoIds}
EmbedLinks == {YouTubeEmbedBase \o id : id \in VideoIds}
VideoLinks == ShortLinks \cup WatchLinks \cup EmbedLinks \cup {OtherPlayer, BareId}

NextVideo ==
    \/ \E s \in Slots, videoLink \in VideoLinks :
           Alone /\ PutVideo(s, KeyCredential, Year2024, videoLink)
    \/ \E s \in Slots : FindOne(s)
    \/ \E s \in Slots : InsertDoc(s)
    \/ \E s \in Slots : SaveDoc(s)

SpecVideo == Init /\ [][NextVideo]_vars

\* extractPublicId applied to URLs of the shape <origin>/<prefix>/<upload>/v<digits>/<folder>/<name>.<ext>;
\* resp holds the call: its argument, the parts the argument was built from, and,
\* once the function has returned, its result
Origin == <<"h","t","t","p","s",":","/","/","r","e","s",".","c","d","n",".","i","o","/">>
UrlPrefixes == {<<<<"i","m","a","g","e">>>>, <<<<"d","e","m","o">>, <<"i","m","a","g","e">>>>, <<<<"u","p","l","o","a","d","s">>, <<"i","m","a","g","e">>>>, <<<<"u","p","l","o","a","d">>, <<"i","m","a","g","e">>>>}
UploadSegments == {<<"u","p","l","o","a","d">>, <<"u","p","l","o","a","d","s">>}
VersionDigits == {<<"1">>, <<"1","7","1","2">>}
Folders == {<<<<"e","v","e","n","t","s">>>>, <<<<"e","v","e","n","t","s">>, <<"p","h","o","t","o","s">>>>, <<<<"v","2">>>>, <<<<"u","p","l","o","a","d">>>>}
Names == {<<"a">>, <<"a",".","b">>}
Extensions == {<<"j","p","g">>, <<"p","n","g">>}

UrlShapes ==
    [prefix : UrlPrefixes, upload : UploadSegments, digits : VersionDigits,
     folder : Folders, name : Names, ext : Extensions]

ShapedUrl(shape) ==
    Origin \o JoinWith(shape.prefix, "/") \o <<"/">> \o shape.upload \o <<"/","v">> \o shape.digits
           \o <<"/">> \o JoinWith(shape.folder, "/") \o <<"/">> \o shape.name \o <<".">> \o shape.ext

InitResolve ==
    /\ AdminUser = {}
    /\ Content = {}
    /\ cloudinary = {}
    /\ now = 0
    /\ issued = {}
    /\ oidSeq = [AdminUser |-> 0, Content |-> 0]
    /\ inflight = [s \in Slots |-> Idle]
    /\ resp \in {[op |-> "extractPublicId", shape |-> shape, maybeIdOrUrl |-> ShapedUrl(shape),
                   returned |-> None] : shape \in UrlShapes}

CallExtractPublicId ==
    /\ resp.op = "extractPublicId"
    /\ resp.returned = None
    /\ resp' = [resp EXCEPT !.returned = Some(extractPublicId(resp.maybeIdOrUrl))]
    /\ UNCHANGED <<AdminUser, Content, cloudinary, now, issued, oidSeq, inflight>>

NextResolve == CallExtractPublicId

SpecResolve == InitResolve /\ [][NextResolve]_vars

\* gallery and award writes and deletions with every failure of the two stores:
\* remote deletes that succeed, find nothing or throw, uploads that are refused,
\* and a document store that throws at any await; one request at a time
NextFailure ==
    \/ \E s \in Slots :
           Alone /\ ListLength(Year2024, "photos") = 0
                 /\ PostPhotos(s, KeyCredential, Year2024, <<FileA>>, <<>>)
    \/ \E s \in Slots, id \in PublicIdsOf("photos") :
           Alone /\ DeletePhoto(s, KeyCredential, Year2024, id)
    \/ \E s \in Slots :
           Alone /\ PostAwards(s, KeyCredential, Year2024, <<FileA>>,
                               AwardBody(Best, "winner", "ada", <<>>, <<>>))
    \/ \E s \in Slots : Alone /\ DeleteAwardCategory(s, KeyCredential, Year2024, Best)
    \/ \E s \in Slots : UploadFile(s)
    \/ \E s \in Slots : UploadFails(s)
    \/ \E s \in Slots : FindOne(s)
    \/ \E s \in Slots : InsertDoc(s)
    \/ \E s \in Slots, outcome \in DestroyOutcomes : Destroy(s, outcome)
    \/ \E s \in Slots : SaveDoc(s)
    \/ \E s \in Slots : StoreUnreachable(s)

SpecFailure == Init /\ [][NextFailure]_vars

-----------------------------------------------------------------------------
(* Claims about the access control gate and the accounts *)

IsBearer(header) == header # None /\ ToLowerCase(header[1].scheme) = <<"b","e","a","r","e","r">>
AccountExists(id) == \E u \in AdminUser : u._id = id
\* a token login issued, not yet expired, whose account is still there
IsLiveToken(t) == t \in issued /\ now < t.payload.exp /\ AccountExists(t.payload.id)
IsExpiredToken(t) == t \in issued /\ now >= t.payload.exp

\* C1: a protected request is accepted with only a valid unexpired token, accepted
\* with only the correct shared secret, rejected with 401 with neither, and
\* rejected with 401 with only an expired token.
C1_GateAcceptsAndRejects ==
    resp.op = "me" =>
        LET c == resp.req.cred
        IN  /\ (c.key = "" /\ IsBearer(c.authorization) /\ IsLiveToken(c.authorization[1].token))
                  => resp.status = 200
            /\ (c.authorization = None /\ c.key = ADMIN_KEY) => resp.status = 200
            /\ (c.authorization = None /\ c.key = "") => resp.status = 401
            /\ (c.key = "" /\ IsBearer(c.authorization) /\ IsExpiredToken(c.authorization[1].token))
                  => resp.status = 401

C1_Witness ==
    /\ resp.op = "me" /\ resp.status = 401
    /\ resp.req.cred.key = ""
    /\ IsBearer(resp.req.cred.authorization)
    /\ IsExpiredToken(resp.req.cred.authorization[1].token)
    /\ AccountExists(resp.req.cred.authorization[1].token.payload.id)

\* C2: a request whose bearer token is invalid, expired or names a vanished account
\* is accepted with the legacy principal when it also carries the correct shared
\* secret, and is rejected only when the shared secret fails too.
IsDeadToken(t) == t.sig # JWT_SECRET \/ now >= t.payload.exp \/ ~AccountExists(t.payload.id)

C2_BearerFailureFallsThrough ==
    resp.op = "me" =>
        LET c == resp.req.cred
        IN  /\ (IsBearer(c.authorization) /\ IsDeadToken(c.authorization[1].token)
                 /\ c.key = ADMIN_KEY)
                  => (resp.status = 200 /\ resp.user = Some([email |-> "x-admin-key", role |-> "admin"]))
            /\ (IsBearer(c.authorization) /\ IsDeadToken(c.authorization[1].token)
                 /\ resp.status = 401)
                  => c.key # ADMIN_KEY

C2_Witness ==
    /\ resp.op = "me" /\ resp.status = 200
    /\ resp.user = Some([email |-> "x-admin-key", role |-> "admin"])
    /\ IsBearer(resp.req.cred.authorization)
    /\ resp.req.cred.authorization[1].token \in issued
    /\ now < resp.req.cred.authorization[1].token.payload.exp
    /\ ~AccountExists(resp.req.cred.authorization[1].token.payload.id)

\* C4: register succeeds only with the correct static shared secret; with a valid
\* bearer token but no (or a wrong) secret it is rejected with 401 and creates no
\* account.
C4_RegisterNeedsSharedSecret ==
    [][ resp'.op = "register" =>
          /\ resp'.status = 201 => resp'.req.cred.key = ADMIN_KEY
          /\ resp'.req.cred.key # ADMIN_KEY => (resp'.status = 401 /\ AdminUser' = AdminUser)
      ]_vars

C4_Witness ==
    /\ resp.op = "register" /\ resp.status = 401
    /\ resp.req.cred.key \in {"", "ADMIN-KEY"}
    /\ IsBearer(resp.req.cred.authorization)
    /\ IsLiveToken(resp.req.cred.authorization[1].token)
    /\ resp.req.body.email = EmailB /\ resp.req.body.password = "pw1"

\* C5: a register request that carries the shared secret, an email and a password,
\* and whose email, lower-cased and trimmed, is the email of an existing account,
\* is answered 400 and leaves the accounts as they were; and no two accounts ever
\* share a normalized email.
HoldsEmail(email) == \E u \in AdminUser : u.email = Trim(ToLowerCase(email))
UniqueEmails ==
    \A u1, u2 \in AdminUser :
        Trim(ToLowerCase(u1.email)) = Trim(ToLowerCase(u2.email)) => u1 = u2

LoginMatches(body) ==
    \E u \in AdminUser :
        /\ u.email = Trim(ToLowerCase(body.email))
        /\ u.passwordHash.digest = <<u.passwordHash.salt, body.password>>

C6_LoginIssuesAndGateResolves ==
    /\ resp.op = "login" =>
          /\ resp.token # None =>
                /\ LoginMatches(resp.req.body) /\ resp.status = 200
                /\ resp.token[1] \in issued
                /\ resp.token[1].payload.exp = now + 12
                /\ \E u \in AdminUser :
                      /\ u.email = Trim(ToLowerCase(resp.req.body.email))
                      /\ resp.token[1].payload.id = u._id
                      /\ resp.token[1].payload.email = u.email
                      /\ resp.token[1].payload.role = u.role
          /\ (resp.req.body.email # <<>> /\ resp.req.body.password # "")
                => IF LoginMatches(resp.req.body)
                   THEN resp.status = 200 /\ resp.token # None
                   ELSE resp.status = 401 /\ resp.token = None
    /\ resp.op = "me" =>
          LET c == resp.req.cred
          IN  (c.key = "" /\ IsBearer(c.authorization) /\ IsLiveToken(c.authorization[1].token))
                => /\ resp.status = 200
                   /\ \E u \in AdminUser :
                         /\ u._id = c.authorization[1].token.payload.id
                         /\ resp.user = Some([_id |-> u._id, email |-> u.email, role |-> u.role])

C6_Witness ==
    /\ resp.op = "me" /\ resp.status = 200
    /\ resp.req.cred.key = ""
    /\ IsBearer(resp.req.cred.authorization)
    /\ IsLiveToken(resp.req.cred.authorization[1].token)
    /\ resp.user # None
    /\ resp.user[1]._id = resp.req.cred.authorization[1].token.payload.id
    /\ now > 0

-----------------------------------------------------------------------------
(* Claims about the year records and their media *)

ContentOps ==
    {"createYear", "reset", "putVideo", "postVideoFile", "postPhotos", "deletePhoto",
     "postAwards", "deleteAwardPhoto", "deleteAwardCategory", "postPartners", "deletePartner"}

\* a content request is answered by the step at which it arrives
AnsweredOnArrival == resp'.op \in ContentOps /\ inflight' = inflight

\* a content request is taken into slot s
TakenInto(s) == inflight[s] = Idle /\ inflight'[s].op \in ContentOps

\* C3: every mutating content endpoint runs only after the gate accepts.  A
\* request the gate rejects is answered 401 by the step at which it arrives,
\* and that step leaves the year records, the accounts and the remote store
\* as they were; a request is carried past its arrival only if the gate
\* accepted its credentials; and the year records and the remote store change
\* only by a step of a request so carried, or of an accepted one on arrival.
C3_MutationsOnlyBehindGate ==
    [][ /\ (AnsweredOnArrival /\ authMiddleware(resp'.req.cred) = None)
           => /\ resp'.status = 401
              /\ Content' = Content
              /\ AdminUser' = AdminUser
              /\ cloudinary' = cloudinary
        /\ \A s \in Slots : TakenInto(s) => authMiddleware(inflight'[s].req.cred) # None
        /\ (Content' # Content \/ cloudinary' # cloudinary)
           => \/ \E s \in Slots : inflight[s].op \in ContentOps /\ inflight'[s] # inflight[s]
              \/ AnsweredOnArrival /\ authMiddleware(resp'.req.cred) # None ]_vars

\* a category deletion is refused while the year holds an award with a photo,
\* a gallery photo and a partner logo, the remote store holds assets and an account exists
C3_Witness ==
    /\ resp.op = "deleteAwardCategory"
    /\ resp.status = 401
    /\ AdminUser # {}
    /\ cloudinary # {}
    /\ \E d \in Content : d.awards # <<>> /\ d.photos # <<>> /\ d.partners # <<>>
                            /\ Truthy(d.videoLink)


RecordsOf(store, year) == {d \in store : d.year = year}

RequestedYear(reply) == JsNumber(reply.req.year)

\* C7: an authorized explicit create for a year that already has a record is
\* answered 400 and no record changes: at the step that answers a create whose
\* year is valid and has a record in the store, the status is 400 and the
\* store is as it was.
C7_CreateExistingYearConflicts ==
    [][ ( /\ resp'.op = "createYear"
          /\ resp'.user # None
          /\ RequestedYear(resp') # None
          /\ RecordsOf(Content, RequestedYear(resp')[1]) # {} )
        => /\ resp'.status = 400
           /\ Content' = Content ]_vars

\* a create is refused for a year whose record already holds a photo
C7_Witness ==
    /\ resp.op = "createYear"
    /\ resp.status = 400
    /\ RequestedYear(resp) # None
    /\ \E d \in RecordsOf(Content, RequestedYear(resp)[1]) : d.photos # <<>>

\* C8: in every reachable state, however explicit creates and get-or-create
\* writes interleave, the store holds at most one record per year.
C8_OneRecordPerYear ==
    \A d1, d2 \in Content : d1.year = d2.year => d1 = d2

\* a writer lost the race for a year: its insert met the unique index
C8_Witness ==
    /\ resp.op \in {"createYear", "postPhotos"}
    /\ resp.message \in {"Content for this year already exists", "E11000 duplicate key"}
    /\ Content # {}

DeleteOps == {"deletePhoto", "deletePartner"}

ListOf(op) == IF op = "deletePhoto" THEN "photos" ELSE "partners"

\* the step at which the delete in slot s saves the record and responds
DeleteSaves(s) ==
    /\ inflight[s].op \in DeleteOps
    /\ inflight[s].pc = "save"
    /\ resp'.op = inflight[s].op

\* the step at which the delete in slot s is answered by its findOne
DeleteAnsweredByLookup(s) ==
    /\ inflight[s].op \in DeleteOps
    /\ inflight[s].pc = "findOne"
    /\ resp'.op = inflight[s].op

ListBefore(s) == (CHOOSE d \in Content : d._id = inflight[s].doc[1]._id)[ListOf(inflight[s].op)]

\* the same request sent again, run against the record as the store now holds it
SecondCall(s, store) ==
    OnFindOne(HandlerEntry(Admitted(inflight[s].op, inflight[s].req, inflight[s].user)),
              Some(CHOOSE d \in store : d._id = inflight[s].doc[1]._id))

SecondCallNotFoundUnchanged(s, store) ==
    /\ SecondCall(s, store).status = 404
    /\ SecondCall(s, store).doc = Some(CHOOSE d \in store : d._id = inflight[s].doc[1]._id)

\* every entry the identifier matches carries the key of the first match
MatchesShareKey(list, id) ==
    \A i \in 1..Len(list) :
        EntryMatches(list[i], id) =>
            /\ Truthy(list[i].public_id)
            /\ list[i].public_id = list[FindEntry(list, id)].public_id

\* C9 as amended: when every entry that the identifier matches (by key
\* equality or by URL containment) carries the key of the first match, a photo
\* or partner delete is idempotent: the same delete sent again on the saved
\* record is answered 404 and saves the record unchanged.
\* For a year without a record the delete is answered 404 by its lookup and
\* nothing is written, so the same holds of the second call.
C9_DeleteTwiceWhenMatchesShareKey ==
    [][ \A s \in Slots :
          /\ (DeleteSaves(s) /\ MatchesShareKey(ListBefore(s), inflight[s].req.id))
             => SecondCallNotFoundUnchanged(s, Content')
          /\ (DeleteAnsweredByLookup(s) /\ ContentFindOne(inflight[s].year) = None)
             => /\ resp'.status = 404
                /\ Content' = Content ]_vars

\* a delete answered 200 left other entries behind, none of which the identifier matches
C9_Witness ==
    /\ resp.op \in DeleteOps
    /\ resp.status = 200
    /\ resp.doc[1][ListOf(resp.op)] # <<>>
    /\ FindEntry(resp.doc[1][ListOf(resp.op)], resp.req.id) = 0
    /\ resp.doc[1] \in Content

\* C9 as stated: for any record and any identifier the second delete is
\* answered 404 and leaves the record unchanged.
C9_DeleteTwiceAnyIdentifier ==
    [][ \A s \in Slots : DeleteSaves(s) => SecondCallNotFoundUnchanged(s, Content') ]_vars

\* C10: when an entry's key equals the identifier, the delete removes that
\* entry, answers 200 with the updated record, and the remote store is asked
\* to delete exactly that key.
C10_DeleteByKeyRemovesThatEntry ==
    [][ \A s \in Slots :
          ( /\ DeleteSaves(s)
            /\ \E i \in 1..Len(ListBefore(s)) :
                   ListBefore(s)[i].public_id = inflight[s].req.id )
          => /\ resp'.status = 200
             /\ resp'.destroys = <<inflight[s].req.id>>
             /\ resp'.doc # None
             /\ resp'.doc[1] \in Content'
             /\ \A i \in 1..Len(resp'.doc[1][ListOf(resp'.op)]) :
                    resp'.doc[1][ListOf(resp'.op)][i].public_id # inflight[s].req.id ]_vars

\* the list is `before` with some entries taken out, the rest in place and in order
RemovedOnly(before, after, removable(_)) ==
    \E keep \in SUBSET (1..Len(before)) :
        /\ after = SelectIndices(before, keep)
        /\ \A i \in (1..Len(before)) \ keep : removable(before[i])

ListAfter(s) == (CHOOSE d \in Content' : d._id = inflight[s].doc[1]._id)[ListOf(inflight[s].op)]

\* C11: when no entry of the addressed list matches the identifier, the photo
\* or partner delete is answered 404, asks the remote store for nothing, and
\* the saved list is the old one less, at most, entries whose key equals the
\* identifier or whose url contains it; every other entry keeps its place.
C11_NotFoundCleansOnlyPartialMatches ==
    [][ \A s \in Slots :
          (DeleteSaves(s) /\ FindEntry(ListBefore(s), inflight[s].req.id) = 0)
          => /\ resp'.status = 404
             /\ resp'.destroys = <<>>
             /\ cloudinary' = cloudinary
             /\ LET id == inflight[s].req.id
                    removable(p) == p.public_id = id \/ (Truthy(p.url) /\ Includes(p.url, id))
                IN  RemovedOnly(ListBefore(s), ListAfter(s), removable) ]_vars

\* a delete that matched nothing in a list of two entries was answered 404
C11_Witness ==
    /\ resp.op \in DeleteOps
    /\ resp.status = 404
    /\ resp.destroys = <<>>
    /\ \E d \in Content :
          /\ d.year = JsNumber(resp.req.year)[1]
          /\ Len(d[ListOf(resp.op)]) = 2
          /\ FindEntry(d[ListOf(resp.op)], resp.req.id) = 0

-----------------------------------------------------------------------------
(* Remote outcomes of a deletion *)

AllDeleteOps == {"deletePhoto", "deletePartner", "deleteAwardPhoto", "deleteAwardCategory"}

AtDestroy(s) == inflight[s].op \in AllDeleteOps /\ inflight[s].pc = "destroy"

-----------------------------------------------------------------------------
(* Award slots *)

StoredBefore(s) == CHOOSE d \in Content : d._id = inflight[s].doc[1]._id
StoredAfter(s) == CHOOSE d \in Content' : d._id = inflight[s].doc[1]._id

SavesAs(s, op) ==
    /\ inflight[s].op = op
    /\ inflight[s].pc = "save"
    /\ inflight'[s] # inflight[s]

\* C13: deleting an award slot's photo clears only the photo of the addressed slot:
\* the request is answered 200, and afterwards the stored slot has the same name and
\* role label and no photo, while the other slots and categories are as before.
C13_SlotPhotoDeleteClearsOnlyPhoto ==
    [][ \A s \in Slots :
          SavesAs(s, "deleteAwardPhoto") =>
              LET k == inflight[s].at
                  role == inflight[s].req.role
                  person == StoredBefore(s).awards[k][role][1]
              IN  /\ resp'.status = 200
                  /\ StoredAfter(s).awards =
                         [StoredBefore(s).awards EXCEPT ![k] =
                             [@ EXCEPT ![role] = Some([person EXCEPT !.photo = None])]] ]_vars

\* the keys the category deletion tries for the photos of a category's populated
\* slots (explicit or derived from the url), and those photos' urls
CategoryCandidateKeys(cat) == Range(AllCandidates(SlotPhotos(cat)))
CategoryPhotoUrls(cat) == {SlotPhotos(cat)[i].url : i \in 1..Len(SlotPhotos(cat))} \ {<<>>}

\* C14: deleting a whole award category is answered 200, removes that category from
\* the stored awards and keeps every other category, and leaves in the gallery no
\* entry whose key equals a candidate key (explicit or derived from the url) or
\* whose url equals the url of a populated slot's photo of the removed category.
C14_CategoryDeleteSweepsGallery ==
    [][ \A s \in Slots :
          SavesAs(s, "deleteAwardCategory") =>
              LET before == StoredBefore(s)
                  after == StoredAfter(s)
                  cat == before.awards[inflight[s].at]
              IN  /\ resp'.status = 200
                  /\ after.awards = SelectIndices(before.awards,
                         {i \in 1..Len(before.awards) : before.awards[i].category # inflight[s].req.category})
                  /\ \A i \in 1..Len(after.photos) :
                         /\ after.photos[i].public_id \notin CategoryCandidateKeys(cat)
                         /\ after.photos[i].url \notin CategoryPhotoUrls(cat) ]_vars

-----------------------------------------------------------------------------
(* Validation failures *)

\* the request fails one of the validations the routes make: non-numeric year,
\* missing videoLink, no uploaded file, missing category, missing or invalid role
FailsValidation(op, req) ==
    \/ JsNumber(req.year) = None
    \/ op = "putVideo" /\ ~Truthy(req.videoLink)
    \/ op \in {"postPhotos", "postPartners", "postVideoFile"} /\ req.names = <<>>
    \/ op = "postAwards" /\ req.body.awards = None
                         /\ (req.body.category = "" \/ req.body.role \notin Roles)

\* C15: a request that fails validation is answered 400 and no YearRecord is created
\* or changed by it (no step taken while such a request is being served, and no step
\* that answers it, changes the records).
C15_ValidationFailureMutatesNothing ==
    [][ /\ \A s \in Slots :
              (inflight[s].op \in ContentOps /\ FailsValidation(inflight[s].op, inflight[s].req))
                  => Content' = Content
        /\ (resp'.op \in ContentOps /\ resp'.user # None /\ FailsValidation(resp'.op, resp'.req))
              => resp'.status = 400 /\ Content' = Content ]_vars

-----------------------------------------------------------------------------
(* Reset and the lifetime of a YearRecord *)

ResetSegment == <<"r","e","s","e","t">>

\* C16: an authorized POST /api/content/reset removes all YearRecords: the answer
\* reports success and afterwards the store holds no YearRecord.
C16_ResetRemovesAllRecords ==
    [][ (resp'.op \in ContentOps /\ resp'.req.year = ResetSegment /\ resp'.user # None)
            => resp'.status = 200 /\ Content' = {} ]_vars

\* C17: no operation other than reset removes a YearRecord: over every step of every
\* sequence of create, video, photo, award, partner and deletion requests, accepted
\* or rejected, each stored record is still stored afterwards, under the same year.
C17_RecordsNeverRemoved ==
    [][ resp'.op # "reset" =>
            \A d \in Content : \E e \in Content' : e._id = d._id /\ e.year = d.year ]_vars

\* a deletion that emptied the record of 2024 was answered 200 and the record is still there
C17_Witness ==
    /\ resp.op \in {"deletePhoto", "deletePartner", "deleteAwardCategory"}
    /\ resp.status = 200
    /\ \E d \in Content : /\ d.year = 2024
                          /\ d = resp.doc[1]
                          /\ d.photos = <<>> /\ d.awards = <<>> /\ d.partners = <<>>

\* C18: upserting an award slot creates the category when it is absent and fully
\* overwrites the addressed slot: the request is answered 200, and afterwards the
\* stored awards are the previous ones, with the category appended if it was absent,
\* and with the addressed slot holding exactly the submitted name and photo (no photo
\* when none was submitted); all other slots and categories are as before.
C18_UpsertCreatesAndOverwrites ==
    [][ \A s \in Slots :
          (SavesAs(s, "postAwards") /\ inflight[s].req.body.awards = None) =>
              LET body == inflight[s].req.body
                  before == StoredBefore(s).awards
                  present == IF FindCategory(before, body.category) = 0
                             THEN Append(before, NewCategory(body.category)) ELSE before
                  k == FindCategory(present, body.category)
              IN  /\ resp'.status = 200
                  /\ StoredAfter(s).awards =
                         [present EXCEPT ![k] = [@ EXCEPT ![body.role] = Some(AwardPerson(inflight[s]))]] ]_vars

-----------------------------------------------------------------------------
(* Video link *)

\* the id a link of one of the three shapes names: short link (youtu.be/<id>),
\* main host with v=<id>, main host with an embed path
LinkNames(link, id) ==
    \/ link \in ShortLinks /\ StartsWith(link, ShortLinkBase \o id)
                           /\ (Len(link) = Len(ShortLinkBase \o id) \/ link[Len(ShortLinkBase \o id) + 1] = "?")
    \/ link \in WatchLinks /\ Includes(link, <<"v","=">> \o id)
                           /\ \A other \in VideoIds : Includes(link, <<"v","=">> \o other) => Len(other) <= Len(id)
    \/ link = YouTubeEmbedBase \o id

\* C19: setting the video link stores the normalized form: a short link and a main-host
\* link with v=<id> are stored as https://www.youtube.com/embed/<id>, a link whose
\* path is already an embed path is stored unchanged, and normalizing the stored link
\* again returns it unchanged.
C19_VideoLinkStoredNormalized ==
    [][ \A s \in Slots :
          SavesAs(s, "putVideo") =>
              /\ resp'.status = 200
              /\ resp'.doc[1] = StoredAfter(s)
              /\ \A id \in VideoIds :
                     LinkNames(inflight[s].req.videoLink, id)
                         => StoredAfter(s).videoLink = YouTubeEmbedBase \o id
              /\ inflight[s].req.videoLink \in EmbedLinks
                     => StoredAfter(s).videoLink = inflight[s].req.videoLink
              /\ toYouTubeEmbed(StoredAfter(s).videoLink) = StoredAfter(s).videoLink ]_vars

\* a main-host link with a v parameter after another parameter was stored as the embed link
C19_Witness ==
    /\ resp.op = "putVideo"
    /\ resp.status = 200
    /\ resp.req.videoLink \in WatchLinks
    /\ ~StartsWith(resp.req.videoLink, WatchLinkBase \o <<"v">>)
    /\ \E d \in Content, id \in VideoIds :
           /\ d.videoLink = YouTubeEmbedBase \o id
           /\ d.videoLink # resp.req.videoLink
           /\ LinkNames(resp.req.videoLink, id)

-----------------------------------------------------------------------------
(* Key resolution *)

Returned == resp.op = "extractPublicId" /\ resp.returned # None

FolderAndName(shape) == JoinWith(shape.folder, "/") \o <<"/">> \o shape.name

-----------------------------------------------------------------------------
(* Failures of the two stores *)

\* slot s answers on this step with a server error
AnswersServerError(s) ==
    /\ inflight[s].op \in ContentOps
    /\ inflight'[s] = Idle
    /\ resp'.status = 500

\* C21 as stated: a failure of the document store is the only failure that aborts an
\* admin write or deletion: every server error is answered at an await on the
\* document store and leaves the records as they were, and nothing the remote
\* media store does turns a request into an error.
C21_OnlyPersistenceFailureAborts ==
    [][ \A s \in Slots :
          AnswersServerError(s) =>
              /\ inflight[s].pc \in {"findOne", "insert", "save"}
              /\ Content' = Content ]_vars

\* C21: a request is answered with a server error only at an await on the document
\* store or when the remote store refuses one of its uploads; that step leaves the
\* records and the remote store as they were (a record loaded by the request is
\* still stored as it was loaded); and no outcome of a remote delete turns a
\* request into an error: a step that waits for a remote delete answers nothing.
C21_PersistenceOrUploadFailureAborts ==
    [][ \A s \in Slots :
          /\ AnswersServerError(s) =>
                /\ inflight[s].pc \in {"findOne", "insert", "save", "upload"}
                /\ Content' = Content
                /\ cloudinary' = cloudinary
                /\ inflight[s].doc # None =>
                       \E d \in Content' : d._id = inflight[s].doc[1]._id /\ d = StoredBefore(s)
          /\ (inflight[s].op \in ContentOps /\ inflight[s].pc = "destroy" /\ inflight'[s] # inflight[s])
                => resp' = NoResp /\ inflight'[s].status = 200 ]_vars

\* the save of a gallery deletion failed after its remote delete: 500, and the
\* record still lists the photo whose key the request asked the remote store to delete
C21_Witness ==
    /\ resp.op = "deletePhoto"
    /\ resp.status = 500
    /\ resp.destroys # <<>>
    /\ \E d \in Content : \E i \in 1..Len(d.photos) : d.photos[i].public_id = resp.destroys[1]

-----------------------------------------------------------------------------
(* Locating the entry and choosing the key *)

\* C22: the entry a photo or partner delete locates is chosen by key equality first
\* and by URL containment only otherwise: whenever some entry's key equals the
\* identifier, the located entry is one whose key equals the identifier, even if an
\* earlier entry has a url that contains the identifier.
C22_ExactKeyBeforeContainment ==
    [][ \A s \in Slots :
          (inflight[s].op \in DeleteOps /\ inflight[s].pc = "findOne" /\ inflight'[s].op = inflight[s].op
              /\ inflight'[s].pc = "destroy") =>
              LET list == inflight'[s].doc[1][ListOf(inflight[s].op)]
                  id == inflight[s].req.id
              IN  (\E i \in 1..Len(list) : list[i].public_id = id)
                      => list[inflight'[s].at].public_id = id ]_vars

\* the single key of the found policy: the explicit key if present, else the key
\* resolved from the url, else the raw identifier
ChosenKey(entry, id) ==
    IF Truthy(entry.public_id) THEN entry.public_id
    ELSE IF Truthy(extractPublicId(entry.url)) THEN extractPublicId(entry.url)
    ELSE id

\* C23: for a found entry (a gallery photo, a partner logo, an award slot's photo)
\* the deletion asks the remote store to delete exactly one key, chosen by priority:
\* the entry's explicit key, else the key resolved from its url, else the raw identifier.
C23_SingleKeyByPriority ==
    [][ \A s \in Slots :
          /\ (inflight[s].op \in DeleteOps /\ SavesAs(s, inflight[s].op) /\ inflight[s].status = 200)
                => inflight[s].destroys =
                       <<ChosenKey(StoredBefore(s)[ListOf(inflight[s].op)][inflight[s].at], inflight[s].req.id)>>
          /\ (SavesAs(s, "deleteAwardPhoto")
                /\ StoredBefore(s).awards[inflight[s].at][inflight[s].req.role][1].photo # None)
                => inflight[s].destroys =
                       <<ChosenKey(StoredBefore(s).awards[inflight[s].at][inflight[s].req.role][1].photo[1], <<>>)>> ]_vars

-----------------------------------------------------------------------------
(* Remote deletes of a category deletion *)

\* the distinct candidate keys of one slot photo: the explicit key and the key derived from the url
CandidateKeySet(photo) ==
    LET u == ParseURL(photo.url)
        derived == IF u = <<>> THEN <<>> ELSE DerivedFromPath(FilterBoolean(SplitOn(u[1].pathname, "/")))
    IN  {photo.public_id, derived} \ {<<>>}

\* seq lists every key of each populated slot's photo once, slot after slot
RECURSIVE OncePerSlot(_, _)
OncePerSlot(seq, photos) ==
    IF photos = <<>> THEN seq = <<>>
    ELSE LET n == Cardinality(CandidateKeySet(Head(photos)))
         IN  /\ Len(seq) >= n
             /\ {seq[i] : i \in 1..n} = CandidateKeySet(Head(photos))
             /\ OncePerSlot(SubSeq(seq, n + 1, Len(seq)), Tail(photos))

CategoryDeletion(s) == inflight[s].op = "deleteAwardCategory" /\ inflight'[s] # inflight[s]

\* C24: a category deletion attempts the remote delete of every distinct candidate
\* key of every populated slot exactly once: the attempts planned when the category
\* is found are those keys, slot after slot; each attempt, whatever its outcome,
\* is followed by the next planned one and is not repeated; and the record is saved
\* only when all of them have been made.
C24_EachCandidateAttemptedOnce ==
    [][ \A s \in Slots :
          /\ (CategoryDeletion(s) /\ inflight[s].pc = "findOne" /\ inflight'[s].op = "deleteAwardCategory")
                => LET cat == ContentFindOne(inflight[s].year)[1].awards[inflight'[s].at]
                       planned == inflight'[s].destroys \o inflight'[s].todo
                   IN  /\ inflight'[s].destroys = <<>>
                       /\ OncePerSlot(planned, SlotPhotos(cat))
          /\ (CategoryDeletion(s) /\ inflight[s].pc = "destroy")
                => /\ inflight'[s].op = "deleteAwardCategory"
                   /\ inflight'[s].destroys = Append(inflight[s].destroys, Head(inflight[s].todo))
                   /\ inflight'[s].todo = Tail(inflight[s].todo)
                   /\ inflight'[s].pc = IF Tail(inflight[s].todo) = <<>> THEN "save" ELSE "destroy"
          /\ (CategoryDeletion(s) /\ inflight[s].pc = "save")
                => /\ inflight[s].todo = <<>>
                   /\ OncePerSlot(inflight[s].destroys, SlotPhotos(StoredBefore(s).awards[inflight[s].at]))
                   /\ resp'.destroys = inflight[s].destroys ]_vars

\* a category with two photos was deleted: three attempts were made although the
\* second one failed (its key is still in the remote store)
C24_Witness ==
    /\ resp.op = "deleteAwardCategory"
    /\ resp.status = 200
    /\ Len(resp.destroys) = 3
    /\ resp.destroys[2] \in cloudinary

(***************************************************************************)
(* Bulk replacement of the awards list                                     *)
(***************************************************************************)

\* the JSON array a bulk request carries in the field awards
BulkOne == <<[category |-> Best, winner |-> [name |-> "ada"]]>>
BulkTwice == <<[category |-> Best, winner |-> [name |-> "ada"]],
               [category |-> Best, firstRunnerUp |-> [name |-> "bob"]]>>
BulkExtraKey == <<[category |-> Other, judge |-> [name |-> "eve"]]>>
BulkLists == {<<>>, BulkOne, BulkTwice, BulkExtraKey}

BulkBody(list) ==
    [awards |-> Some(list), category |-> "", role |-> "", name |-> "",
     photoUrl |-> <<>>, public_id |-> <<>>]

\* slot upserts, bulk replacements and award deletions on one year, one request
\* at a time
NextBulk ==
    \/ \E s \in Slots, list \in BulkLists :
           Alone /\ PostAwards(s, KeyCredential, Year2024, <<>>, BulkBody(list))
    \/ \E s \in Slots, category \in AwardCategories, role \in AwardRoles :
           Alone /\ PostAwards(s, KeyCredential, Year2024, <<>>,
                               AwardBody(category, role, "ada", <<>>, <<>>))
    \/ \E s \in Slots, category \in AwardCategories, role \in AwardRoles :
           Alone /\ DeleteAwardPhoto(s, KeyCredential, Year2024, category, role)
    \/ \E s \in Slots, category \in AwardCategories :
           Alone /\ DeleteAwardCategory(s, KeyCredential, Year2024, category)
    \/ \E s \in Slots : FindOne(s)
    \/ \E s \in Slots : InsertDoc(s)
    \/ \E s \in Slots : SaveDoc(s)

SpecBulk == Init /\ [][NextBulk]_vars

CategoryNamesUnique(awards) ==
    \A i, j \in 1..Len(awards) : awards[i].category = awards[j].category => i = j

SlotsKeyedByRole(awards) ==
    \A i \in 1..Len(awards) : DOMAIN awards[i] = {"category"} \cup Roles

\* C25: in every stored record the category names of the awards list are pairwise
\* distinct, and every slot of a category sits under one of the three roles, after
\* any sequence of slot upserts, bulk replacements and deletions
C25_CategoriesUniqueSlotsByRole ==
    \A d \in Content : CategoryNamesUnique(d.awards) /\ SlotsKeyedByRole(d.awards)

\* the part the schema enforces: no slot is stored under another key
C25_SlotsByRoleOnly ==
    \A d \in Content : SlotsKeyedByRole(d.awards)

C25_BulkStoredWithExtraKey ==
    /\ resp.op = "postAwards" /\ resp.status = 200
    /\ resp.req.body.awards = Some(BulkExtraKey)

(***************************************************************************)
(* Concurrent deletions and a remote call that does not return             *)
(***************************************************************************)

\* uploads one at a time, then deletions of the gallery photo and of the category
\* arriving while another request is still in flight
NextConcurrent ==
    \/ \E s \in Slots :
           Alone /\ ListLength(Year2024, "photos") = 0
                 /\ PostPhotos(s, KeyCredential, Year2024, <<FileA>>, <<>>)
    \/ \E s \in Slots :
           Alone /\ PostAwards(s, KeyCredential, Year2024, <<FileA>>,
                               AwardBody(Best, "winner", "ada", <<>>, <<>>))
    \/ \E s \in Slots, id \in PublicIdsOf("photos") :
           DeletePhoto(s, KeyCredential, Year2024, id)
    \/ \E s \in Slots : DeleteAwardCategory(s, KeyCredential, Year2024, Best)
    \/ \E s \in Slots : UploadFile(s)
    \/ \E s \in Slots : FindOne(s)
    \/ \E s \in Slots : InsertDoc(s)
    \/ \E s \in Slots, outcome \in DestroyOutcomes : Destroy(s, outcome)
    \/ \E s \in Slots : SaveDoc(s)

\* the request in this slot may wait for its remote delete for ever
HungSlot == CHOOSE s \in Slots : \A t \in Slots : s <= t

At(s, pc) == inflight[s] # Idle /\ inflight[s].pc = pc

\* the request in slot s was moved on by the step (being outdated by the save of
\* another request is not a step of the request itself)
Stepped(s) ==
    /\ inflight[s] # Idle
    /\ inflight'[s] # inflight[s]
    /\ (inflight'[s] = Idle \/ inflight'[s] # [inflight[s] EXCEPT !.stale = TRUE])

\* weak fairness of UploadFile(s) and of FindOne(s), with ENABLED written out: the
\* step is enabled exactly while the request waits at that await, and it is the
\* only step that moves the request on from there
Returns(s, pc) ==
    []<>(~At(s, pc)) \/ []<><<At(s, pc) /\ Stepped(s)>>_vars

\* the calls on the document store and the uploads return, and the event loop runs
\* the continuation
Awaited(s) ==
    /\ Returns(s, "upload")
    /\ Returns(s, "findOne")
    /\ WF_vars(InsertDoc(s))
    /\ WF_vars(SaveDoc(s))

\* the remote deletes return as well
Responsive(s) ==
    /\ Awaited(s)
    /\ WF_vars(\E outcome \in DestroyOutcomes : Destroy(s, outcome))

\* nothing is assumed about the remote deletes of the request in HungSlot
SpecHang ==
    /\ Init
    /\ [][NextConcurrent]_vars
    /\ Awaited(HungSlot)
    /\ \A s \in Slots \ {HungSlot} : Responsive(s)

DeletionOps == {"deletePhoto", "deletePartner", "deleteAwardPhoto", "deleteAwardCategory"}

\* a step of a deletion request: a returning remote delete consumes the next
\* candidate only, and the record is written only by the step after the last one
RemoteCallsThenSave(s) ==
    (inflight[s].op \in DeletionOps /\ Stepped(s)) =>
        /\ inflight[s].pc = "destroy" =>
               /\ Content' = Content /\ resp' = NoResp /\ inflight'[s] # Idle
               /\ inflight'[s].destroys = Append(inflight[s].destroys, Head(inflight[s].todo))
               /\ inflight'[s].todo = Tail(inflight[s].todo)
               /\ inflight'[s].pc = (IF Tail(inflight[s].todo) = <<>> THEN "save" ELSE "destroy")
        /\ Content' # Content => inflight[s].pc = "save" /\ inflight[s].todo = <<>>

\* while a request waits for a remote delete, nothing of it is visible
WaitingIsInvisible(s) ==
    (inflight[s].op \in DeletionOps /\ inflight[s].pc = "destroy" /\ ~Stepped(s)) =>
        \/ Content' = Content
        \/ \E t \in Slots \ {s} : At(t, "save") /\ inflight'[t] = Idle

\* C26: within a deletion request the remote deletes run one after another and the
\* record is saved only after the last has returned; while one request waits for a
\* remote delete that does not return, it neither writes nor responds, and every
\* other request in flight still reaches its response
C26_HangingCallBlocksOnlyItsRequest ==
    /\ [][\A s \in Slots : RemoteCallsThenSave(s) /\ WaitingIsInvisible(s)]_vars
    /\ \A s \in Slots \ {HungSlot} : (inflight[s] # Idle) ~> (inflight[s] = Idle)

\* another deletion is answered while the request in HungSlot waits for its remote delete
C26_Witness ==
    /\ inflight[HungSlot].op \in DeletionOps /\ inflight[HungSlot].pc = "destroy"
    /\ resp.op \in DeletionOps /\ resp.status = 200 /\ resp.destroys # <<>>

(***************************************************************************)
(* Writers that interleave on one record                                   *)
(***************************************************************************)

\* uploads into the gallery and deletions from it, arriving at any time
NextRace ==
    \/ \E s \in Slots : PostPhotos(s, KeyCredential, Year2024, <<FileA>>, <<>>)
    \/ \E s \in Slots, id \in PublicIdsOf("photos") :
           DeletePhoto(s, KeyCredential, Year2024, id)
    \/ \E s \in Slots : UploadFile(s)
    \/ \E s \in Slots : FindOne(s)
    \/ \E s \in Slots : InsertDoc(s)
    \/ \E s \in Slots, outcome \in {"ok", "not found"} : Destroy(s, outcome)
    \/ \E s \in Slots : SaveDoc(s)

SpecRace == Init /\ [][NextRace]_vars

\* the save of a request that loaded the record before another request saved it
InterleavedSave(s) == At(s, "save") /\ Stepped(s) /\ inflight[s].doc[1] # inflight[s].base[1]

\* C27: when two writes to one record interleave, the save of each succeeds, and
\* after a save the stored record is the document that save wrote (so the change
\* of the earlier writer is overwritten by the later one)
C27_LastSaveWins ==
    [][\A s \in Slots : InterleavedSave(s) =>
           /\ resp'.status # 500
           /\ inflight[s].doc[1] \in Content']_vars

\* the later of two interleaved saves is refused
C27_LaterSaveRefused ==
    resp.op = "deletePhoto" /\ resp.status = 500 /\ resp.message = "VersionError"

(***************************************************************************)
(* Get-or-create                                                           *)
(***************************************************************************)

\* the step on which getOrCreateContentByYear returns or throws: the lookup that
\* finds the record, or the save of the new one
GetOrCreateEnds(s) ==
    /\ inflight[s].op \in GetOrCreateOps /\ Stepped(s)
    /\ \/ At(s, "findOne") /\ ContentFindOne(inflight[s].year) # None
       \/ At(s, "insert")

\* C28: every call of get-or-create returns a record of that year that is in the
\* store (the existing one, or a new one with empty photos, awards and partners and
\* no video), and the write request that called it is not answered with a server
\* error, also when two such requests for one new year interleave
C28_GetOrCreateReturnsPersisted ==
    [][\A s \in Slots : GetOrCreateEnds(s) =>
           /\ (IF resp' = NoResp THEN TRUE ELSE resp'.status # 500)
           /\ inflight'[s] # Idle =>
                  /\ inflight'[s].base # None
                  /\ inflight'[s].base[1] \in Content'
                  /\ inflight'[s].base[1].year = inflight[s].year
                  /\ At(s, "insert") =>
                         inflight'[s].base[1] = NewContent(inflight'[s].base[1]._id, inflight[s].year)]_vars

\* the second of two creating writers is refused by the unique index
C28_SecondCreatorRefused ==
    resp.op = "postPhotos" /\ resp.status = 500 /\ resp.message = "E11000 duplicate key"

(***************************************************************************)
(* Public reads, and requests that address what is not there               *)
(***************************************************************************)

NoHeaders == [authorization |-> None, key |-> ""]

\* reads without and with credentials, and deletions, of a year that has a record
\* and of one that has none; reads may arrive while another request is in flight
NextRead ==
    \/ \E s \in Slots :
           Alone /\ ListLength(Year2024, "photos") = 0
                 /\ PostPhotos(s, KeyCredential, Year2024, <<FileA>>, <<>>)
    \/ \E s \in Slots :
           Alone /\ PostAwards(s, KeyCredential, Year2024, <<>>,
                               AwardBody(Best, "winner", "ada", GalleryUrl, GalleryKey))
    \/ \E s \in Slots, cred \in {NoHeaders, KeyCredential} : GetContentList(s, cred)
    \/ \E s \in Slots, cred \in {NoHeaders, KeyCredential}, year \in {Year2024, Year2025} :
           GetContentYear(s, cred, year)
    \/ \E s \in Slots, year \in {Year2024, Year2025}, category \in AwardCategories :
           GetAwardCategory(s, NoHeaders, year, category)
    \/ \E s \in Slots, year \in {Year2024, Year2025} :
           Alone /\ DeletePhoto(s, KeyCredential, year, GalleryKey)
    \/ \E s \in Slots, year \in {Year2024, Year2025}, category \in AwardCategories, role \in AwardRoles :
           Alone /\ DeleteAwardPhoto(s, KeyCredential, year, category, role)
    \/ \E s \in Slots, year \in {Year2024, Year2025}, category \in AwardCategories :
           Alone /\ DeleteAwardCategory(s, KeyCredential, year, category)
    \/ \E s \in Slots : UploadFile(s)
    \/ \E s \in Slots : Find(s)
    \/ \E s \in Slots : FindOne(s)
    \/ \E s \in Slots : InsertDoc(s)
    \/ \E s \in Slots, outcome \in {"ok", "not found"} : Destroy(s, outcome)
    \/ \E s \in Slots : SaveDoc(s)

SpecRead == Init /\ [][NextRead]_vars

\* the lookup of a read or deletion request finds no record of the year, no
\* category of the name, or no person in the slot it addresses
AddressesAbsent(r) ==
    LET found == ContentFindOne(r.year)
    IN  \/ found = None
        \/ /\ r.op \in {"getAwardCategory", "deleteAwardPhoto", "deleteAwardCategory"}
           /\ FindCategory(found[1].awards, r.req.category) = 0
        \/ /\ r.op = "deleteAwardPhoto"
           /\ FindCategory(found[1].awards, r.req.category) # 0
           /\ found[1].awards[FindCategory(found[1].awards, r.req.category)][r.req.role] = None

StoresUntouched == Content' = Content /\ cloudinary' = cloudinary /\ AdminUser' = AdminUser

\* a public read arrives
ReadArrives(s) == inflight[s] = Idle /\ inflight'[s] # Idle /\ inflight'[s].op \in PublicOps

\* C29: a public read is served whatever credentials it carries and changes
\* nothing; no read or deletion adds a record; a read or deletion whose lookup
\* finds no record of the year (or no such category, or an empty slot) answers 404
\* and leaves the records and the remote store as they were
C29_ReadsAndAbsentTargetsChangeNothing ==
    [][/\ \A s \in Slots :
              /\ ReadArrives(s) => StoresUntouched
              /\ (inflight[s].op \in PublicOps /\ Stepped(s)) =>
                     StoresUntouched /\ resp' # NoResp /\ resp'.status # 401
              /\ (inflight[s].op \in PublicOps \cup DeletionOps /\ Stepped(s)) =>
                     {d._id : d \in Content'} = {d._id : d \in Content}
              /\ (inflight[s].op \in PublicOps \cup DeletionOps /\ At(s, "findOne") /\ Stepped(s)
                    /\ AddressesAbsent(inflight[s])) =>
                     resp' # NoResp /\ resp'.status = 404 /\ StoresUntouched
       /\ (resp'.op \in PublicOps /\ inflight' = inflight) => (StoresUntouched /\ resp'.status # 401)]_vars

\* a read without credentials of a year without a record, while the other year has one
C29_Witness ==
    /\ resp.op = "getContentYear" /\ resp.status = 404 /\ resp.req.cred = NoHeaders
    /\ Content # {}

(***************************************************************************)
(* The gallery sweep of the award deletions                                *)
(***************************************************************************)

\* a gallery of two photos whose keys share a prefix, a logo, and a slot photo that
\* names the second gallery photo; one request at a time
NextSweep ==
    \/ \E s \in Slots :
           Alone /\ ListLength(Year2024, "photos") = 0
                 /\ PostPhotos(s, KeyCredential, Year2024, <<FileAB, FileA>>, <<>>)
    \/ \E s \in Slots :
           Alone /\ ListLength(Year2024, "partners") = 0
                 /\ PostPartners(s, KeyCredential, Year2024, <<FileA>>)
    \/ \E s \in Slots, role \in AwardRoles :
           Alone /\ PostAwards(s, KeyCredential, Year2024, <<>>,
                               AwardBody(Best, role, "ada", GalleryUrl, GalleryKey))
    \/ \E s \in Slots, role \in AwardRoles :
           Alone /\ DeleteAwardPhoto(s, KeyCredential, Year2024, Best, role)
    \/ \E s \in Slots :
           Alone /\ DeleteAwardCategory(s, KeyCredential, Year2024, Best)
    \/ \E s \in Slots : UploadFile(s)
    \/ \E s \in Slots : FindOne(s)
    \/ \E s \in Slots : InsertDoc(s)
    \/ \E s \in Slots, outcome \in {"ok", "not found"} : Destroy(s, outcome)
    \/ \E s \in Slots : SaveDoc(s)

SpecSweep == Init /\ [][NextSweep]_vars

\* the slot photos an award deletion addresses in the record it loaded
AddressedSlotPhotos(r) ==
    LET cat == r.base[1].awards[r.at]
    IN  IF r.op = "deleteAwardCategory" THEN SlotPhotos(cat)
        ELSE IF cat[r.req.role][1].photo = None THEN <<>>
        ELSE <<cat[r.req.role][1].photo[1]>>

EqualsKeyOrUrl(p, photos) ==
    \E i \in 1..Len(photos) : p.public_id = photos[i].public_id \/ p.url = photos[i].url

\* the gallery after is the gallery before without some of the entries that equal
\* an addressed slot photo by key or url, the others kept in order
OnlyEqualEntriesRemoved(before, after, photos) ==
    \E kept \in SUBSET (1..Len(before)) :
        /\ \A i \in 1..Len(before) : ~EqualsKeyOrUrl(before[i], photos) => i \in kept
        /\ after = SelectIndices(before, kept)

AwardDeletionSaves(s) ==
    inflight[s].op \in {"deleteAwardPhoto", "deleteAwardCategory"} /\ At(s, "save") /\ Stepped(s)

\* C30: the save of an award deletion removes from the gallery only entries whose
\* key or url equals that of a slot photo it addressed, keeps the other gallery
\* photos in order, and leaves the partner logos and the video link as they were
C30_SweepRemovesOnlyEqualEntries ==
    [][\A s \in Slots : AwardDeletionSaves(s) =>
           LET before == ContentFindOne(inflight[s].year)[1]
               after == CHOOSE d \in Content' : d._id = before._id
           IN  /\ OnlyEqualEntriesRemoved(before.photos, after.photos, AddressedSlotPhotos(inflight[s]))
               /\ after.partners = before.partners
               /\ after.videoLink = before.videoLink]_vars

====
